---- MODULE Spec2Model ----
(***************************************************************************)
(* Assignment lifecycle of projo-web: the assignments service              *)
(* (assignPrimary, assignSecondary, startTempCoverage, endAssignment,      *)
(* listAssignments), the error mapping it shares with the other services,  *)
(* and the two screens that decide the assignment type before they call    *)
(* the service (AssignmentsCreatePage, NewAssignmentModal).                *)
(*                                                                         *)
(* JavaScript values are records tagged by t: undefined, null, or a string *)
(* that is a sequence of tokens; the token " " is white space, every other *)
(* token stands for a run of non-blank characters.                         *)
(***************************************************************************)
EXTENDS Integers, Sequences, FiniteSets, TLC

VARIABLES
    rows,       \* api.assignments: the table, in insertion order
    now,        \* the clock read by new Date()
    auditLog,   \* audit_logs: the entries written through logAudit
    last,       \* the service call that returned last: its input and its outcome
    ui,         \* the browser session: its route, screen state and query results
    projects,   \* projects: the table, in insertion order
    positions,  \* project_positions: the table, in insertion order
    auth        \* the auth client's session and a mounted RequireAuth

vars == <<rows, now, auditLog, last, ui, projects, positions, auth>>

\* ------------------------------------------------------------------ bounds
MaxRows == 2
Instants == {1, 2}

\* ------------------------------------------------------------------ JavaScript values
Undef == [t |-> "undefined"]
Null == [t |-> "null"]
Str(s) == [t |-> "string", v |-> s]

IsString(x) == x.t = "string"
IsNullish(x) == x.t \in {"undefined", "null"}

\* a ?? b
Coalesce(a, b) == IF IsNullish(a) THEN b ELSE a

IsSpace(tok) == tok = " "

RECURSIVE TrimStart(_)
TrimStart(s) ==
    IF s = <<>> THEN <<>>
    ELSE IF IsSpace(Head(s)) THEN TrimStart(Tail(s)) ELSE s

RECURSIVE TrimEnd(_)
TrimEnd(s) ==
    IF s = <<>> THEN <<>>
    ELSE IF IsSpace(s[Len(s)]) THEN TrimEnd(SubSeq(s, 1, Len(s) - 1)) ELSE s

\* String.prototype.trim
Trim(s) == TrimEnd(TrimStart(s))

\* !x?.trim() : undefined, null and white-space-only strings
IsBlank(x) == IF IsString(x) THEN Trim(x.v) = <<>> ELSE TRUE

\* toNullIfBlank: (v ?? "").trim(), null when empty
toNullIfBlank(x) ==
    LET s == Trim(Coalesce(x, Str(<<>>)).v)
    IN  IF Len(s) # 0 THEN Str(s) ELSE Null

DefaultRotation == Str(<<"14/14">>)

\* rotationOrDefault without the trim: only an absent value gets the default.
rotationOrDefaultNoTrim(x) ==
    LET s == Coalesce(x, Str(<<>>)).v
    IN  IF Len(s) # 0 THEN Str(s) ELSE DefaultRotation

rotationOrDefault(x) ==
    LET s == Trim(Coalesce(x, Str(<<>>)).v)
    IN  IF Len(s) # 0 THEN Str(s) ELSE DefaultRotation

\* todayIsoDate() and new Date().toISOString(): the clock, printed
todayIsoDate(clock) == Str(<<ToString(clock)>>)
toISOString(clock) == Str(<<ToString(clock)>>)

PRIMARY == Str(<<"PRIMARY">>)
SECONDARY == Str(<<"SECONDARY">>)
TEMP_COVERAGE == Str(<<"TEMP_COVERAGE">>)
ACTIVE == Str(<<"active">>)
COMPLETED == Str(<<"completed">>)
CANCELLED == Str(<<"cancelled">>)

\* ------------------------------------------------------------------ errors
\* A PostgrestError: its SQLSTATE code and its message, a sequence of words.
PgError(code, message) == [code |-> code, message |-> message]

AppError(code, message) == [code |-> code, message |-> message]

NoError == [code |-> "", message |-> <<>>]

\* String.prototype.toLowerCase, word by word
LowerWord(w) ==
    CASE w = "Permission" -> "permission"
      [] w = "Denied" -> "denied"
      [] w = "JWT" -> "jwt"
      [] w = "Not" -> "not"
      [] w = "Authenticated" -> "authenticated"
      [] OTHER -> w

toLowerCase(s) == [i \in 1..Len(s) |-> LowerWord(s[i])]

\* String.prototype.includes: part occurs as a run of consecutive words
Includes(s, part) ==
    \E i \in 1..(Len(s) + 1) :
        /\ i + Len(part) - 1 <= Len(s)
        /\ SubSeq(s, i, i + Len(part) - 1) = part

\* mapPostgrestError without the branch for unique violations.
mapPostgrestErrorNoConflict(error) ==
    LET msg == toLowerCase(error.message)
        code == error.code
    IN  IF code = "42501" \/ Includes(msg, <<"permission", "denied">>)
        THEN AppError("FORBIDDEN", <<"You", "don't", "have", "permission">>)
        ELSE IF code = "23502"
        THEN AppError("VALIDATION_ERROR", <<"A", "required", "field", "is", "missing:">> \o error.message)
        ELSE IF Includes(msg, <<"jwt">>) \/ Includes(msg, <<"not", "authenticated">>)
        THEN AppError("UNAUTHORIZED", <<"Please", "sign", "in", "again.">>)
        ELSE AppError("DB_ERROR", error.message)

mapPostgrestError(error) ==
    LET msg == toLowerCase(error.message)
        code == error.code
    IN  IF code = "42501" \/ Includes(msg, <<"permission", "denied">>)
        THEN AppError("FORBIDDEN", <<"You", "don't", "have", "permission">>)
        ELSE IF code = "23505"
        THEN AppError("CONFLICT", <<"This", "record", "already", "exists.">>)
        ELSE IF code = "23502"
        THEN AppError("VALIDATION_ERROR", <<"A", "required", "field", "is", "missing:">> \o error.message)
        ELSE IF Includes(msg, <<"jwt">>) \/ Includes(msg, <<"not", "authenticated">>)
        THEN AppError("UNAUTHORIZED", <<"Please", "sign", "in", "again.">>)
        ELSE AppError("DB_ERROR", error.message)

\* A service outcome: the row returned, or the AppError thrown.
Returned(row) == [ok |-> TRUE, data |-> row, error |-> NoError]
Thrown(err) == [ok |-> FALSE, data |-> Null, error |-> err]

\* A PostgREST response {data, error}
PgOk(row) == [data |-> row, error |-> Null]
PgFail(err) == [data |-> Null, error |-> err]

assertOk(result) ==
    IF result.error # Null THEN Thrown(mapPostgrestError(result.error))
    ELSE IF result.data = Null THEN Thrown(AppError("UNKNOWN", <<"No", "data", "returned.">>))
    ELSE Returned(result.data)

\* ------------------------------------------------------------------ the store
\* The row of the table with this id, or Null. Ids are the insertion indices, printed.
RowId(i) == Str(<<ToString(i)>>)

IsActive(r) == r.ended_at = Null

IsIncumbent(r) == r.assignment_type \in {PRIMARY, SECONDARY}

\* "DB unique index enforces: one active PRIMARY per worker."
ActivePrimariesOfWorker(table, workerId) ==
    {i \in 1..Len(table) :
        /\ table[i].worker_id = workerId
        /\ table[i].assignment_type = PRIMARY
        /\ IsActive(table[i])}

\* "DB unique index enforces: one active incumbent per position."
ActiveIncumbentsOfPosition(table, positionId) ==
    {i \in 1..Len(table) :
        /\ table[i].position_id = positionId
        /\ IsIncumbent(table[i])
        /\ IsActive(table[i])}

UniqueViolation(table, row) ==
    /\ IsActive(row)
    /\ \/ /\ row.assignment_type = PRIMARY
          /\ ActivePrimariesOfWorker(table, row.worker_id) # {}
       \/ /\ IsIncumbent(row)
          /\ ActiveIncumbentsOfPosition(table, row.position_id) # {}

DuplicateKeyMessage == <<"duplicate", "key", "value", "violates", "unique", "constraint">>
NotNullMessage == <<"null", "value", "in", "column", "rotation_schedule">>
NoRowsMessage == <<"JSON", "object", "requested,", "multiple", "(or", "no)", "rows", "returned">>

\* insert([payload]).select("*").single()
\* rotation_schedule is a NOT NULL column of api.assignments.
StoreInsert(table, payload) ==
    IF payload.rotation_schedule = Null
    THEN [table |-> table, res |-> PgFail(PgError("23502", NotNullMessage))]
    ELSE IF UniqueViolation(table, payload)
    THEN [table |-> table, res |-> PgFail(PgError("23505", DuplicateKeyMessage))]
    ELSE LET row == [id |-> RowId(Len(table) + 1)] @@ payload
         IN  [table |-> Append(table, row), res |-> PgOk(row)]

\* An end that deletes the row: delete().eq("id", id).select("*").single()
StoreDelete(table, id, patch) ==
    LET hit == {i \in 1..Len(table) : table[i].id = id}
    IN  IF hit = {}
        THEN [table |-> table, res |-> PgFail(PgError("PGRST116", NoRowsMessage))]
        ELSE LET i == CHOOSE j \in hit : TRUE
             IN  [table |-> SubSeq(table, 1, i - 1) \o SubSeq(table, i + 1, Len(table)),
                  res |-> PgOk(table[i])]

\* update(patch).eq("id", id).select("*").single()
StoreUpdate(table, id, patch) ==
    LET hit == {i \in 1..Len(table) : table[i].id = id}
    IN  IF hit = {}
        THEN [table |-> table, res |-> PgFail(PgError("PGRST116", NoRowsMessage))]
        ELSE LET i == CHOOSE j \in hit : TRUE
                 row == [f \in DOMAIN table[i] |->
                            IF f \in DOMAIN patch THEN patch[f] ELSE table[i][f]]
             IN  [table |-> [table EXCEPT ![i] = row], res |-> PgOk(row)]

\* ------------------------------------------------------------------ the service
\* Each service function maps (input, table, clock) to the table after the
\* call and the outcome: the row returned or the AppError thrown.
Outcome(table, out) == [table |-> table, out |-> out]

Required(field) == AppError("VALIDATION_ERROR", <<field, "is", "required.">>)

\* The three checks every create starts with; NoError when they pass.
IdsValidation(input) ==
    IF IsBlank(input.worker_id) THEN Required("worker_id")
    ELSE IF IsBlank(input.project_id) THEN Required("project_id")
    ELSE IF IsBlank(input.position_id) THEN Required("position_id")
    ELSE NoError

\* assignPrimary that stores the reason the caller passed.
PrimaryPayloadWithReason(input, clock) ==
    [worker_id |-> input.worker_id,
     project_id |-> input.project_id,
     position_id |-> input.position_id,
     assignment_type |-> PRIMARY,
     assignment_start_date |-> Coalesce(input.assignment_start_date, todayIsoDate(clock)),
     assignment_end_date |-> Coalesce(input.assignment_end_date, Null),
     rotation_schedule |-> rotationOrDefault(input.rotation_schedule),
     opcon_supervisor_id |-> toNullIfBlank(input.opcon_supervisor_id),
     status |-> ACTIVE,
     notes |-> toNullIfBlank(input.notes),
     override_reason |-> toNullIfBlank(input.override_reason),
     ended_at |-> Null]

PrimaryPayload(input, clock) ==
    [worker_id |-> input.worker_id,
     project_id |-> input.project_id,
     position_id |-> input.position_id,
     assignment_type |-> PRIMARY,
     assignment_start_date |-> Coalesce(input.assignment_start_date, todayIsoDate(clock)),
     assignment_end_date |-> Coalesce(input.assignment_end_date, Null),
     rotation_schedule |-> rotationOrDefault(input.rotation_schedule),
     opcon_supervisor_id |-> toNullIfBlank(input.opcon_supervisor_id),
     status |-> ACTIVE,
     notes |-> toNullIfBlank(input.notes),
     override_reason |-> Null,
     ended_at |-> Null]

assignPrimary(input, table, clock) ==
    IF IdsValidation(input) # NoError THEN Outcome(table, Thrown(IdsValidation(input)))
    ELSE LET ins == StoreInsert(table, PrimaryPayload(input, clock))
         IN  Outcome(ins.table, assertOk(ins.res))

\* assignSecondary that tests the reason for null only, without trimming it.
SecondaryValidationNoTrim(input) ==
    IF IdsValidation(input) # NoError THEN IdsValidation(input)
    ELSE IF IsNullish(input.override_reason) \/ input.override_reason = Str(<<>>)
    THEN AppError("VALIDATION_ERROR", <<"override_reason", "is", "required", "for", "SECONDARY.">>)
    ELSE NoError

SecondaryValidation(input) ==
    IF IdsValidation(input) # NoError THEN IdsValidation(input)
    ELSE IF toNullIfBlank(input.override_reason) = Null
    THEN AppError("VALIDATION_ERROR", <<"override_reason", "is", "required", "for", "SECONDARY.">>)
    ELSE NoError

\* assignSecondary that stores the reason as typed.
SecondaryPayloadRawReason(input, clock) ==
    [worker_id |-> input.worker_id,
     project_id |-> input.project_id,
     position_id |-> input.position_id,
     assignment_type |-> SECONDARY,
     assignment_start_date |-> Coalesce(input.assignment_start_date, todayIsoDate(clock)),
     assignment_end_date |-> Coalesce(input.assignment_end_date, Null),
     rotation_schedule |-> rotationOrDefault(input.rotation_schedule),
     opcon_supervisor_id |-> toNullIfBlank(input.opcon_supervisor_id),
     status |-> ACTIVE,
     notes |-> toNullIfBlank(input.notes),
     override_reason |-> input.override_reason,
     ended_at |-> Null]

SecondaryPayload(input, clock) ==
    [worker_id |-> input.worker_id,
     project_id |-> input.project_id,
     position_id |-> input.position_id,
     assignment_type |-> SECONDARY,
     assignment_start_date |-> Coalesce(input.assignment_start_date, todayIsoDate(clock)),
     assignment_end_date |-> Coalesce(input.assignment_end_date, Null),
     rotation_schedule |-> rotationOrDefault(input.rotation_schedule),
     opcon_supervisor_id |-> toNullIfBlank(input.opcon_supervisor_id),
     status |-> ACTIVE,
     notes |-> toNullIfBlank(input.notes),
     override_reason |-> toNullIfBlank(input.override_reason),
     ended_at |-> Null]

\* assignSecondary that inserts before it looks at the reason.
assignSecondaryInsertFirst(input, table, clock) ==
    IF IdsValidation(input) # NoError THEN Outcome(table, Thrown(IdsValidation(input)))
    ELSE LET ins == StoreInsert(table, SecondaryPayloadRawReason(input, clock))
         IN  IF SecondaryValidation(input) # NoError
             THEN Outcome(ins.table, Thrown(SecondaryValidation(input)))
             ELSE Outcome(ins.table, assertOk(ins.res))

assignSecondary(input, table, clock) ==
    IF SecondaryValidation(input) # NoError
    THEN Outcome(table, Thrown(SecondaryValidation(input)))
    ELSE LET ins == StoreInsert(table, SecondaryPayload(input, clock))
         IN  Outcome(ins.table, assertOk(ins.res))

\* startTempCoverage that looks at the end date before the start date.
TempValidationEndFirst(input) ==
    IF IdsValidation(input) # NoError THEN IdsValidation(input)
    ELSE IF IsBlank(input.assignment_end_date)
    THEN AppError("VALIDATION_ERROR",
                  <<"assignment_end_date", "is", "required", "for", "TEMP_COVERAGE.">>)
    ELSE IF IsBlank(input.assignment_start_date)
    THEN AppError("VALIDATION_ERROR",
                  <<"assignment_start_date", "is", "required", "for", "TEMP_COVERAGE.">>)
    ELSE IF toNullIfBlank(input.override_reason) = Null
    THEN AppError("VALIDATION_ERROR",
                  <<"override_reason", "is", "required", "for", "TEMP_COVERAGE.">>)
    ELSE NoError

\* startTempCoverage that does not look at the end date.
TempValidationNoEndDate(input) ==
    IF IdsValidation(input) # NoError THEN IdsValidation(input)
    ELSE IF IsBlank(input.assignment_start_date)
    THEN AppError("VALIDATION_ERROR",
                  <<"assignment_start_date", "is", "required", "for", "TEMP_COVERAGE.">>)
    ELSE IF toNullIfBlank(input.override_reason) = Null
    THEN AppError("VALIDATION_ERROR",
                  <<"override_reason", "is", "required", "for", "TEMP_COVERAGE.">>)
    ELSE NoError

TempValidation(input) ==
    IF IdsValidation(input) # NoError THEN IdsValidation(input)
    ELSE IF IsBlank(input.assignment_start_date)
    THEN AppError("VALIDATION_ERROR",
                  <<"assignment_start_date", "is", "required", "for", "TEMP_COVERAGE.">>)
    ELSE IF IsBlank(input.assignment_end_date)
    THEN AppError("VALIDATION_ERROR",
                  <<"assignment_end_date", "is", "required", "for", "TEMP_COVERAGE.">>)
    ELSE IF toNullIfBlank(input.override_reason) = Null
    THEN AppError("VALIDATION_ERROR",
                  <<"override_reason", "is", "required", "for", "TEMP_COVERAGE.">>)
    ELSE NoError

TempPayload(input) ==
    [worker_id |-> input.worker_id,
     project_id |-> input.project_id,
     position_id |-> input.position_id,
     assignment_type |-> TEMP_COVERAGE,
     assignment_start_date |-> input.assignment_start_date,
     assignment_end_date |-> input.assignment_end_date,
     rotation_schedule |-> toNullIfBlank(input.rotation_schedule),
     opcon_supervisor_id |-> toNullIfBlank(input.opcon_supervisor_id),
     status |-> ACTIVE,
     notes |-> toNullIfBlank(input.notes),
     override_reason |-> toNullIfBlank(input.override_reason),
     ended_at |-> Null]

\* startTempCoverage that refuses a position with an active incumbent.
startTempCoverageCheckingConflict(input, table, clock) ==
    IF TempValidation(input) # NoError THEN Outcome(table, Thrown(TempValidation(input)))
    ELSE IF ActiveIncumbentsOfPosition(table, input.position_id) # {}
    THEN Outcome(table, Thrown(AppError("CONFLICT", <<"This", "record", "already", "exists.">>)))
    ELSE LET ins == StoreInsert(table, TempPayload(input))
         IN  Outcome(ins.table, assertOk(ins.res))

startTempCoverage(input, table, clock) ==
    IF TempValidation(input) # NoError THEN Outcome(table, Thrown(TempValidation(input)))
    ELSE LET ins == StoreInsert(table, TempPayload(input))
         IN  Outcome(ins.table, assertOk(ins.res))

\* endAssignment without the default for endedAtIso.
EndPatchNoDefault(input, clock) ==
    [ended_at |-> Coalesce(input.endedAtIso, Null),
     status |-> Coalesce(input.endStatus, COMPLETED)]

\* endAssignment whose status falls back to the status of a new row.
EndPatchActiveDefault(input, clock) ==
    [ended_at |-> Coalesce(input.endedAtIso, toISOString(clock)),
     status |-> Coalesce(input.endStatus, ACTIVE)]

\* endAssignment that also writes the day of the call as assignment_end_date.
EndPatchSettingEndDate(input, clock) ==
    [ended_at |-> Coalesce(input.endedAtIso, toISOString(clock)),
     status |-> Coalesce(input.endStatus, COMPLETED),
     assignment_end_date |-> todayIsoDate(clock)]

EndPatch(input, clock) ==
    [ended_at |-> Coalesce(input.endedAtIso, toISOString(clock)),
     status |-> Coalesce(input.endStatus, COMPLETED)]

endAssignment(input, table, clock) ==
    IF IsBlank(input.assignmentId) THEN Outcome(table, Thrown(Required("assignmentId")))
    ELSE LET upd == StoreUpdate(table, input.assignmentId, EndPatch(input, clock))
         IN  Outcome(upd.table, assertOk(upd.res))

\* getActiveIncumbentForPosition: the active PRIMARY or SECONDARY row of the
\* position that was created last, or null. Rows are kept in creation order.
getActiveIncumbentForPosition(positionId, table) ==
    IF IsBlank(positionId) THEN Null
    ELSE LET hit == ActiveIncumbentsOfPosition(table, positionId)
         IN  IF hit = {} THEN Null
             ELSE table[CHOOSE i \in hit : \A j \in hit : j <= i]

\* logAudit: one more row of audit_logs
logAudit(log, input) ==
    Append(log, [entity_type |-> input.entity_type,
                 entity_id |-> input.entity_id,
                 action |-> input.action])

\* ------------------------------------------------------------------ inputs
W1 == Str(<<"W1">>)
W2 == Str(<<"W2">>)
P1 == Str(<<"P1">>)
P2 == Str(<<"P2">>)
PR1 == Str(<<"PR1">>)
PR2 == Str(<<"PR2">>)
Workers == {W1, W2}
Positions == {P1, P2}

\* The project a position belongs to (project_positions.project_id).
ProjectOf(positionId) == IF positionId = P1 THEN PR1 ELSE PR2

CoveringShortage == Str(<<"covering", " ", "shortage">>)
Blank == Str(<<" ">>)
Empty == Str(<<>>)
SuppliedEndedAt == Str(<<"earlier">>)
CoverageStart == Str(<<"1">>)
CoverageEnd == Str(<<"2">>)

\* CreateIncumbentAssignmentInput
IncumbentInput(w, pr, p, reason, rotation) ==
    [worker_id |-> w, project_id |-> pr, position_id |-> p,
     assignment_start_date |-> Undef, assignment_end_date |-> Undef,
     rotation_schedule |-> rotation, opcon_supervisor_id |-> Undef,
     notes |-> Undef, override_reason |-> reason]

\* CreateTempCoverageInput
TempInput(w, pr, p, start, end, reason, rotation) ==
    [worker_id |-> w, project_id |-> pr, position_id |-> p,
     assignment_start_date |-> start, assignment_end_date |-> end,
     rotation_schedule |-> rotation, opcon_supervisor_id |-> Undef,
     notes |-> Undef, override_reason |-> reason]

\* EndAssignmentInput
EndInput(id, endStatus, endedAtIso) ==
    [assignmentId |-> id, endStatus |-> endStatus, endedAtIso |-> endedAtIso]

\* Well-formed requests over every worker and position.
CoreIncumbentInputs ==
    {IncumbentInput(w, ProjectOf(p), p, reason, Undef) :
        w \in Workers, p \in Positions, reason \in {Undef, CoveringShortage}}

CoreTempInputs ==
    {TempInput(w, ProjectOf(p), p, CoverageStart, CoverageEnd, CoveringShortage, DefaultRotation) :
        w \in Workers, p \in Positions}

CoreEndInputs ==
    {EndInput(RowId(i), endStatus, Undef) :
        i \in 1..MaxRows, endStatus \in {Undef, COMPLETED, CANCELLED}}
    \cup {EndInput(RowId(i), Undef, SuppliedEndedAt) : i \in 1..MaxRows}

\* ------------------------------------------------------------------ actions
\* One action per service call: the whole round trip, validation included.
AssignPrimary(input) ==
    LET r == assignPrimary(input, rows, now)
    IN  /\ Len(r.table) <= MaxRows
        /\ rows' = r.table
        /\ UNCHANGED <<now, auditLog, projects, positions, auth, ui>>

AssignSecondary(input) ==
    LET r == assignSecondary(input, rows, now)
    IN  /\ Len(r.table) <= MaxRows
        /\ rows' = r.table
        /\ UNCHANGED <<now, auditLog, projects, positions, auth, ui>>

StartTempCoverage(input) ==
    LET r == startTempCoverage(input, rows, now)
    IN  /\ Len(r.table) <= MaxRows
        /\ rows' = r.table
        /\ UNCHANGED <<now, auditLog, projects, positions, auth, ui>>

EndAssignment(input) ==
    LET r == endAssignment(input, rows, now)
    IN  /\ rows' = r.table
        /\ UNCHANGED <<now, auditLog, projects, positions, auth, ui>>

\* useMutation before its first mutate: status, the variables of the last
\* mutate and the error it threw
IdleMutation == [status |-> "idle", variables |-> Null, error |-> NoError]

\* The browser session after the app has opened on the assignments list: the
\* list page with NewAssignmentModal mounted and closed, no query answered yet.
\*   route            "list" (AssignmentsListPage) or "create" (AssignmentsCreatePage)
\*   cpWorkerId       AssignmentsCreatePage: workerId
\*   cpItems          what listAssignmentsByWorker returned to useWorkerActiveAssignment
\*   cpFormError      AssignmentsCreatePage: formError
\*   mOpen            NewAssignmentModal: open
\*   mWorkerId        NewAssignmentModal: workerId
\*   mActivePrimaries NewAssignmentModal: activePrimaries.data
\*   mOverrideOpen    NewAssignmentModal: overrideOpen
\*   mPending         NewAssignmentModal: pendingPayload
\*   mutation         useAssignWorker() of the mounted screen
AppOpened ==
    [route |-> "list",
     cpWorkerId |-> Str(<<>>), cpItems |-> Undef, cpFormError |-> Null,
     mOpen |-> FALSE, mWorkerId |-> Str(<<>>), mActivePrimaries |-> Undef,
     mOverrideOpen |-> FALSE, mPending |-> Null,
     mutation |-> IdleMutation]

\* Nobody is signed in and no RequireAuth is mounted.
\* session: the auth client has a session. checking, hasSession: useState(true),
\* useState(false). getSession: "idle", "called", then what it read ("session",
\* "none", "error") until its promise is delivered, then "done". events: the
\* auth state changes not yet delivered to the subscriber. latest: what the
\* newest session information delivered so far says; newerSeen: an event
\* emitted after getSession read has been delivered.
SignedOutUnmounted ==
    [session |-> FALSE, mounted |-> FALSE, checking |-> TRUE, hasSession |-> FALSE,
     getSession |-> "idle", events |-> <<>>, latest |-> "nothing", newerSeen |-> FALSE]

NoCall == [op |-> "none", input |-> Null, out |-> Returned(Null), prior |-> Null]

Init ==
    /\ rows = <<>>
    /\ now = 1
    /\ auditLog = <<>>
    /\ last = NoCall
    /\ ui = AppOpened
    /\ projects = <<>>
    /\ positions = <<>>
    /\ auth = SignedOutUnmounted

\* Any sequence of service calls, from any callers, each one round trip to the store.
Next ==
    \/ \E input \in CoreIncumbentInputs : AssignPrimary(input) /\ UNCHANGED last
    \/ \E input \in CoreIncumbentInputs : AssignSecondary(input) /\ UNCHANGED last
    \/ \E input \in CoreTempInputs : StartTempCoverage(input) /\ UNCHANGED last
    \/ \E input \in CoreEndInputs : EndAssignment(input) /\ UNCHANGED last

Spec == Init /\ [][Next]_vars

\* ------------------------------------------------------------------ observed calls
\* The same calls, with the input and the outcome the caller gets kept in last.
Call(op, input, out, prior) == [op |-> op, input |-> input, out |-> out, prior |-> prior]

\* The row with this id as the table has it, or Null.
RowOf(table, id) ==
    IF \E i \in 1..Len(table) : table[i].id = id
    THEN table[CHOOSE i \in 1..Len(table) : table[i].id = id]
    ELSE Null

\* prior: for a create, the active incumbent of the requested position before
\* the call; for an end, the addressed row before the call.
CallAssignPrimary(input) ==
    /\ AssignPrimary(input)
    /\ last' = Call("assignPrimary", input, assignPrimary(input, rows, now).out,
                    getActiveIncumbentForPosition(input.position_id, rows))

CallAssignSecondary(input) ==
    /\ AssignSecondary(input)
    /\ last' = Call("assignSecondary", input, assignSecondary(input, rows, now).out,
                    getActiveIncumbentForPosition(input.position_id, rows))

CallStartTempCoverage(input) ==
    /\ StartTempCoverage(input)
    /\ last' = Call("startTempCoverage", input, startTempCoverage(input, rows, now).out,
                    getActiveIncumbentForPosition(input.position_id, rows))

CallEndAssignment(input) ==
    /\ EndAssignment(input)
    /\ last' = Call("endAssignment", input, endAssignment(input, rows, now).out,
                    RowOf(rows, input.assignmentId))

\* Time passes.
Tick ==
    /\ now + 1 \in Instants
    /\ now' = now + 1
    /\ UNCHANGED <<rows, auditLog, projects, positions, auth, last, ui>>

\* ---- create calls, with inputs that miss fields
SevenSeven == Str(<<"7/7">>)
PaddedReason == Str(<<" ", "covering", " ", "shortage", " ">>)

ValidIds == <<W1, PR1, P1>>
InvalidIds ==
    {<<Blank, PR1, P1>>, <<W1, Undef, P1>>, <<W1, PR1, Empty>>,
     <<Undef, Undef, Undef>>, <<W1, Null, Blank>>}

WidePrimaryInputs ==
    {IncumbentInput(ValidIds[1], ValidIds[2], ValidIds[3], reason, rotation) :
        reason \in {Undef, CoveringShortage}, rotation \in {Undef, Null, Blank, SevenSeven}}
    \cup {IncumbentInput(ids[1], ids[2], ids[3], Undef, Undef) : ids \in InvalidIds}

WideSecondaryInputs ==
    {IncumbentInput(ValidIds[1], ValidIds[2], ValidIds[3], reason, Undef) :
        reason \in {Undef, Null, Empty, Blank, CoveringShortage, PaddedReason}}
    \cup {IncumbentInput(ids[1], ids[2], ids[3], reason, Undef) :
            ids \in InvalidIds, reason \in {Undef, CoveringShortage}}

WideTempInputs ==
    {TempInput(ValidIds[1], ValidIds[2], ValidIds[3], start, end, reason, rotation) :
        start \in {Blank, CoverageStart}, end \in {Undef, CoverageEnd},
        reason \in {Blank, CoveringShortage}, rotation \in {Undef, DefaultRotation}}
    \cup {TempInput(ids[1], ids[2], ids[3], Undef, Undef, Undef, Undef) : ids \in InvalidIds}

PlainEndInputs == {EndInput(RowId(i), Undef, Undef) : i \in 1..MaxRows}

NextCreate ==
    \/ \E input \in WidePrimaryInputs : CallAssignPrimary(input)
    \/ \E input \in WideSecondaryInputs : CallAssignSecondary(input)
    \/ \E input \in WideTempInputs : CallStartTempCoverage(input)
    \/ \E input \in PlainEndInputs : EndAssignment(input) /\ UNCHANGED last

CreateSpec == Init /\ [][NextCreate]_vars

\* ---- end calls, at different times, with and without a status and a time
EndSpecPrimaryInput == IncumbentInput(W1, PR1, P1, Undef, Undef)
EndSpecTempInput ==
    TempInput(W2, PR1, P1, CoverageStart, CoverageEnd, CoveringShortage, DefaultRotation)

WideEndInputs ==
    CoreEndInputs \cup {EndInput(id, Undef, Undef) : id \in {Undef, Blank}}

NextEnd ==
    \/ AssignPrimary(EndSpecPrimaryInput) /\ UNCHANGED last
    \/ StartTempCoverage(EndSpecTempInput) /\ UNCHANGED last
    \/ \E input \in WideEndInputs : CallEndAssignment(input)
    \/ Tick

EndSpec == Init /\ [][NextEnd]_vars

\* ------------------------------------------------------------------ listAssignments
\* if (x): a string other than ""
Truthy(x) == IsString(x) /\ x.v # <<>>

\* ListAssignmentsParams; page and pageSize 0 when absent
ListParams(includeEnded, workerId, type) ==
    [includeEnded |-> includeEnded, workerId |-> workerId, projectId |-> Undef,
     positionId |-> Undef, type |-> type, page |-> 0, pageSize |-> 0]

\* The place of a date in the order of dates; dates are printed instants.
DateRank(d) ==
    IF IsString(d) /\ d.v # <<>> /\ (\E n \in 0..9 : ToString(n) = d.v[1])
    THEN CHOOSE n \in 0..9 : ToString(n) = d.v[1]
    ELSE 0

\* listAssignments that never filters on ended_at.
MatchingEndedToo(params, table) ==
    {i \in 1..Len(table) :
        /\ Truthy(params.workerId) => table[i].worker_id = params.workerId
        /\ Truthy(params.projectId) => table[i].project_id = params.projectId
        /\ Truthy(params.positionId) => table[i].position_id = params.positionId
        /\ Truthy(params.type) => table[i].assignment_type = params.type}

\* The rows the filters keep, by index.
Matching(params, table) ==
    {i \in 1..Len(table) :
        /\ params.includeEnded \/ IsActive(table[i])
        /\ Truthy(params.workerId) => table[i].worker_id = params.workerId
        /\ Truthy(params.projectId) => table[i].project_id = params.projectId
        /\ Truthy(params.positionId) => table[i].position_id = params.positionId
        /\ Truthy(params.type) => table[i].assignment_type = params.type}

\* order("assignment_start_date", {ascending: false}): every order of the
\* kept rows that has later start dates first; rows of one date come in any order.
Ordered(params, table) ==
    LET keep == Matching(params, table)
        n == Cardinality(keep)
    IN  {[k \in 1..n |-> table[f[k]]] :
            f \in {g \in [1..n -> keep] :
                    /\ \A a, b \in 1..n : a # b => g[a] # g[b]
                    /\ \A a, b \in 1..n :
                        a < b => DateRank(table[g[a]].assignment_start_date)
                                    >= DateRank(table[g[b]].assignment_start_date)}}

\* range(from, to), when page and pageSize are given
Paged(params, s) ==
    IF params.page # 0 /\ params.pageSize # 0
    THEN LET from == (params.page - 1) * params.pageSize
             to == from + params.pageSize - 1
         IN  SubSeq(s, from + 1, IF to + 1 < Len(s) THEN to + 1 ELSE Len(s))
    ELSE s

\* The answers listAssignments can give on this table.
listAssignments(params, table) == {Paged(params, s) : s \in Ordered(params, table)}

listAssignmentsByWorker(workerId, includeEnded, table) ==
    listAssignments(ListParams(includeEnded, workerId, Undef), table)

\* ------------------------------------------------------------------ useAssignWorker
\* The payload the screens pass to mutateAsync.
AssignPayload(type, w, pr, p, start, rotation, reason) ==
    [assignmentType |-> type, workerId |-> w, projectId |-> pr, positionId |-> p,
     assignmentStartDate |-> start, assignmentEndDate |-> Null,
     rotationSchedule |-> rotation, opconSupervisorId |-> Null, notes |-> Null,
     overrideReason |-> reason]

\* mutationFn: camelCase payload to the service input and the service function
assignWorker(payload, table, clock) ==
    IF payload.assignmentType = TEMP_COVERAGE
    THEN startTempCoverage(
            [worker_id |-> payload.workerId,
             project_id |-> payload.projectId,
             position_id |-> payload.positionId,
             assignment_start_date |-> payload.assignmentStartDate,
             assignment_end_date |-> payload.assignmentEndDate,
             override_reason |-> payload.overrideReason,
             rotation_schedule |-> Coalesce(payload.rotationSchedule, Null),
             opcon_supervisor_id |-> Coalesce(payload.opconSupervisorId, Null),
             notes |-> Coalesce(payload.notes, Null)], table, clock)
    ELSE LET base == [worker_id |-> payload.workerId,
                      project_id |-> payload.projectId,
                      position_id |-> payload.positionId,
                      assignment_start_date |-> payload.assignmentStartDate,
                      assignment_end_date |-> Coalesce(payload.assignmentEndDate, Null),
                      rotation_schedule |-> Coalesce(payload.rotationSchedule, Null),
                      opcon_supervisor_id |-> Coalesce(payload.opconSupervisorId, Null),
                      notes |-> Coalesce(payload.notes, Null),
                      override_reason |-> payload.overrideReason]
         IN  IF payload.assignmentType = SECONDARY
             THEN assignSecondary(base, table, clock)
             ELSE assignPrimary(base, table, clock)

\* The mutation after mutateAsync has settled.
Settled(payload, out) ==
    [status |-> IF out.ok THEN "success" ELSE "error",
     variables |-> payload,
     error |-> out.error]

\* ------------------------------------------------------------------ AssignmentsCreatePage
\* A query that has answered: its data
Answered(data) == [t |-> "data", v |-> data]

\* toDateOnly: an ISO date-time cut to its first ten characters, the date
toDateOnly(value) ==
    IF ~Truthy(value) THEN value
    ELSE IF \E i \in 1..Len(value.v) : value.v[i] = "T" THEN Str(SubSeq(value.v, 1, 1))
    ELSE value

\* useWorkerActiveAssignment(workerId).data: items[0] ?? null
cpActiveData(u) ==
    IF u.cpItems = Undef THEN Undef
    ELSE IF u.cpItems.v = <<>> THEN Null
    ELSE u.cpItems.v[1]

\* useWorkerActiveAssignment(workerId).isLoading: enabled and not answered yet
cpIsLoading(u) == Truthy(u.cpWorkerId) /\ u.cpItems = Undef

\* Boolean(workerId && active.data)
hasConflict(u) == Truthy(u.cpWorkerId) /\ cpActiveData(u) \notin {Undef, Null}

\* The fields of the form that onSubmit reads next to workerId.
CpForm(projectId, positionId, startDate, rotation, override, overrideReason) ==
    [projectId |-> projectId, positionId |-> positionId, startDate |-> startDate,
     rotation |-> rotation, override |-> override, overrideReason |-> overrideReason]

EnableOverrideMessage ==
    Str(<<"This", "worker", "already", "has", "an", "active", "assignment.",
          "Enable", "override", "and", "provide", "a", "reason", "to", "proceed.">>)
ReasonRequiredMessage ==
    Str(<<"Override", "reason", "is", "required", "when", "forcing", "an", "assignment.">>)

\* What a handler decides before any write: to return, to show an error,
\* to ask for an override, or to call mutateAsync with a payload.
Decision(kind, formError, payload) ==
    [kind |-> kind, formError |-> formError, payload |-> payload]

\* onSubmit up to the call of assign.mutateAsync
onSubmit(u, form) ==
    IF \/ ~Truthy(form.projectId) \/ ~Truthy(form.positionId)
       \/ ~Truthy(u.cpWorkerId) \/ ~Truthy(form.startDate)
    THEN Decision("return", u.cpFormError, Null)
    ELSE IF cpIsLoading(u) THEN Decision("return", u.cpFormError, Null)
    ELSE IF hasConflict(u) /\ ~form.override
    THEN Decision("formError", EnableOverrideMessage, Null)
    ELSE IF hasConflict(u) /\ IsBlank(form.overrideReason)
    THEN Decision("formError", ReasonRequiredMessage, Null)
    ELSE Decision("mutate", Null,
            AssignPayload(IF hasConflict(u) /\ form.override THEN SECONDARY ELSE PRIMARY,
                          u.cpWorkerId, form.projectId, form.positionId,
                          toDateOnly(form.startDate),
                          IF Trim(form.rotation.v) # <<>> THEN Str(Trim(form.rotation.v))
                          ELSE DefaultRotation,
                          IF hasConflict(u) /\ form.override
                          THEN Str(Trim(form.overrideReason.v)) ELSE Undef))

\* AssignmentsCreatePage as it mounts
CreatePageMounted == [AppOpened EXCEPT !.route = "create"]

\* The user follows the link to /assignments/new; the list page unmounts.
GoCreate ==
    /\ ui.route = "list"
    /\ ui' = CreatePageMounted
    /\ UNCHANGED <<rows, now, auditLog, projects, positions, auth, last>>

\* navigate("/assignments"), by the Cancel button or the browser
GoList ==
    /\ ui.route = "create"
    /\ ui' = AppOpened
    /\ UNCHANGED <<rows, now, auditLog, projects, positions, auth, last>>

\* setWorkerId, and the effect that resets the override state; the query of
\* the new worker has not answered yet
CP_SelectWorker(w) ==
    /\ ui.route = "create"
    /\ w # ui.cpWorkerId
    /\ ui' = [ui EXCEPT !.cpWorkerId = w, !.cpItems = Undef, !.cpFormError = Null]
    /\ UNCHANGED <<rows, now, auditLog, projects, positions, auth, last>>

\* useWorkerActiveAssignment answers, for the first time or on a refetch
CP_FetchActive ==
    /\ ui.route = "create"
    /\ Truthy(ui.cpWorkerId)
    /\ \E items \in listAssignmentsByWorker(ui.cpWorkerId, FALSE, rows) :
            ui' = [ui EXCEPT !.cpItems = Answered(items)]
    /\ UNCHANGED <<rows, now, auditLog, projects, positions, auth, last>>

\* onSubmit, the service call and its result included
CP_Submit(form) ==
    /\ ui.route = "create"
    /\ LET d == onSubmit(ui, form)
           r == assignWorker(d.payload, rows, now)
       IN  CASE d.kind = "return" -> UNCHANGED <<rows, ui>>
             [] d.kind = "formError" ->
                    /\ ui' = [ui EXCEPT !.cpFormError = d.formError]
                    /\ UNCHANGED rows
             [] d.kind = "mutate" ->
                    /\ Len(r.table) <= MaxRows
                    /\ rows' = r.table
                    /\ ui' = IF r.out.ok THEN AppOpened
                             ELSE [ui EXCEPT !.cpFormError = Str(r.out.error.message),
                                             !.mutation = Settled(d.payload, r.out)]
    /\ UNCHANGED <<now, auditLog, projects, positions, auth, last>>

\* ------------------------------------------------------------------ NewAssignmentModal
\* activePrimaries.data ?? []
mActiveRows(u) == IF u.mActivePrimaries = Undef THEN <<>> ELSE u.mActivePrimaries.v

\* selectedConflict that looks the worker up among the ids of the positions.
selectedConflictByPosition(u) ==
    LET data == mActiveRows(u)
        hit == {i \in 1..Len(data) : data[i].position_id = u.mWorkerId}
    IN  IF ~Truthy(u.mWorkerId) \/ hit = {} THEN Null
        ELSE data[CHOOSE i \in hit : \A j \in hit : j <= i]

\* activePrimaryByWorkerId.get(workerId) ?? null: of the rows of one worker
\* the Map keeps the one that comes last
selectedConflict(u) ==
    LET data == mActiveRows(u)
        hit == {i \in 1..Len(data) : data[i].worker_id = u.mWorkerId}
    IN  IF ~Truthy(u.mWorkerId) \/ hit = {} THEN Null
        ELSE data[CHOOSE i \in hit : \A j \in hit : j <= i]

requiresOverride(u) == selectedConflict(u) # Null

\* The fields of the form that submit reads next to workerId.
ModalForm(projectId, positionId, startDate, rotationSchedule) ==
    [projectId |-> projectId, positionId |-> positionId, startDate |-> startDate,
     rotationSchedule |-> rotationSchedule]

\* canSubmit; a mutation is never pending between two steps
canSubmit(u, form) ==
    /\ Truthy(form.projectId) /\ Truthy(form.positionId)
    /\ Truthy(u.mWorkerId) /\ Truthy(form.startDate)
    /\ Trim(form.rotationSchedule.v) # <<>>

\* basePayload, typed; its type is PRIMARY until confirmOverride replaces it
BasePayload(u, form) ==
    AssignPayload(PRIMARY, u.mWorkerId, form.projectId, form.positionId,
                  form.startDate, Str(Trim(form.rotationSchedule.v)), Undef)

\* submit that never asks for an override.
submitWithoutPrompt(u, form) ==
    IF ~canSubmit(u, form) THEN Decision("return", Null, Null)
    ELSE Decision("mutate", Null, BasePayload(u, form))

\* submit up to the call of assignWorker.mutateAsync
submit(u, form) ==
    IF ~canSubmit(u, form) THEN Decision("return", Null, Null)
    ELSE IF selectedConflict(u) # Null THEN Decision("prompt", Null, BasePayload(u, form))
    ELSE Decision("mutate", Null, BasePayload(u, form))

\* confirmOverride up to the call of assignWorker.mutateAsync
confirmOverride(u, overrideReason) ==
    IF u.mPending = Null THEN Decision("return", Null, Null)
    ELSE IF IsBlank(overrideReason) THEN Decision("return", Null, Null)
    ELSE Decision("mutate", Null,
            [u.mPending EXCEPT !.assignmentType = SECONDARY,
                               !.overrideReason = Str(Trim(overrideReason.v))])

\* A close that keeps the pending payload.
ClearedKeepingPending(u) ==
    [u EXCEPT !.mOpen = FALSE, !.mWorkerId = Str(<<>>), !.mOverrideOpen = FALSE]

\* The fields the modal clears when open turns false.
Cleared(u) ==
    [u EXCEPT !.mOpen = FALSE, !.mWorkerId = Str(<<>>),
              !.mOverrideOpen = FALSE, !.mPending = Null]

\* The list page opens the modal.
M_Open ==
    /\ ui.route = "list"
    /\ ~ui.mOpen
    /\ ui' = [ui EXCEPT !.mOpen = TRUE]
    /\ UNCHANGED <<rows, now, auditLog, projects, positions, auth, last>>

\* onClose, by the Cancel button or the backdrop
M_Close ==
    /\ ui.route = "list"
    /\ ui.mOpen
    /\ ui' = Cleared(ui)
    /\ UNCHANGED <<rows, now, auditLog, projects, positions, auth, last>>

M_SelectWorker(w) ==
    /\ ui.route = "list"
    /\ ui.mOpen /\ ~ui.mOverrideOpen
    /\ w # ui.mWorkerId
    /\ ui' = [ui EXCEPT !.mWorkerId = w]
    /\ UNCHANGED <<rows, now, auditLog, projects, positions, auth, last>>

\* useAssignmentsList({includeEnded: false, type: "PRIMARY"}) answers
M_FetchActivePrimaries ==
    /\ ui.route = "list"
    /\ \E items \in listAssignments(ListParams(FALSE, Undef, PRIMARY), rows) :
            ui' = [ui EXCEPT !.mActivePrimaries = Answered(items)]
    /\ UNCHANGED <<rows, now, auditLog, projects, positions, auth, last>>

\* submit, the service call and its result included
M_Submit(form) ==
    /\ ui.route = "list"
    /\ ui.mOpen /\ ~ui.mOverrideOpen
    /\ LET d == submit(ui, form)
           r == assignWorker(d.payload, rows, now)
       IN  CASE d.kind = "return" -> UNCHANGED <<rows, ui>>
             [] d.kind = "prompt" ->
                    /\ ui' = [ui EXCEPT !.mPending = d.payload, !.mOverrideOpen = TRUE]
                    /\ UNCHANGED rows
             [] d.kind = "mutate" ->
                    /\ Len(r.table) <= MaxRows
                    /\ rows' = r.table
                    /\ ui' = IF r.out.ok
                             THEN [Cleared(ui) EXCEPT !.mutation = Settled(d.payload, r.out)]
                             ELSE [ui EXCEPT !.mutation = Settled(d.payload, r.out)]
    /\ UNCHANGED <<now, auditLog, projects, positions, auth, last>>

\* confirmOverride, the service call and its result included
M_ConfirmOverride(overrideReason) ==
    /\ ui.route = "list"
    /\ ui.mOpen /\ ui.mOverrideOpen
    /\ LET d == confirmOverride(ui, overrideReason)
           r == assignWorker(d.payload, rows, now)
       IN  CASE d.kind = "return" -> UNCHANGED <<rows, ui>>
             [] d.kind = "mutate" ->
                    /\ Len(r.table) <= MaxRows
                    /\ rows' = r.table
                    /\ ui' = IF r.out.ok
                             THEN [Cleared(ui) EXCEPT !.mutation = Settled(d.payload, r.out)]
                             ELSE [ui EXCEPT !.mutation = Settled(d.payload, r.out)]
    /\ UNCHANGED <<now, auditLog, projects, positions, auth, last>>

\* The Cancel button of the override dialog
M_CancelOverride ==
    /\ ui.route = "list"
    /\ ui.mOpen /\ ui.mOverrideOpen
    /\ ui' = [ui EXCEPT !.mOverrideOpen = FALSE, !.mPending = Null]
    /\ UNCHANGED <<rows, now, auditLog, projects, positions, auth, last>>

\* The override dialog's own onClose: Escape or the backdrop
M_DismissOverride ==
    /\ ui.route = "list"
    /\ ui.mOpen /\ ui.mOverrideOpen
    /\ ui' = [ui EXCEPT !.mOverrideOpen = FALSE]
    /\ UNCHANGED <<rows, now, auditLog, projects, positions, auth, last>>

\* ------------------------------------------------------------------ one session among others
\* What the user of the session can enter.
Tomorrow == Str(<<"2">>)
TomorrowWithTime == Str(<<"2", "T", "09:00">>)

CpForms ==
    {CpForm(PR2, positionId, startDate, rotation, override, overrideReason) :
        positionId \in {P2, Empty}, startDate \in {Tomorrow, TomorrowWithTime},
        rotation \in {DefaultRotation, Blank}, override \in BOOLEAN,
        overrideReason \in {Empty, PaddedReason}}

ModalForms ==
    {ModalForm(PR2, positionId, Tomorrow, rotationSchedule) :
        positionId \in {P2, Empty}, rotationSchedule \in {DefaultRotation, Blank}}

SessionWorkers == {W1, W2}

\* What the other sessions do meanwhile, on another position.
OthersPrimaryInput == IncumbentInput(W1, PR1, P1, Undef, Undef)
OthersTempInput ==
    TempInput(W1, PR1, P1, CoverageStart, CoverageEnd, CoveringShortage, DefaultRotation)

NextUI ==
    \/ GoCreate
    \/ GoList
    \/ \E w \in SessionWorkers : CP_SelectWorker(w)
    \/ CP_FetchActive
    \/ \E form \in CpForms : CP_Submit(form)
    \/ M_Open
    \/ M_Close
    \/ \E w \in SessionWorkers : M_SelectWorker(w)
    \/ M_FetchActivePrimaries
    \/ \E form \in ModalForms : M_Submit(form)
    \/ \E overrideReason \in {Blank, PaddedReason} : M_ConfirmOverride(overrideReason)
    \/ M_CancelOverride
    \/ M_DismissOverride
    \/ AssignPrimary(OthersPrimaryInput) /\ UNCHANGED last
    \/ StartTempCoverage(OthersTempInput) /\ UNCHANGED last
    \/ \E input \in PlainEndInputs : EndAssignment(input) /\ UNCHANGED last

UISpec == Init /\ [][NextUI]_vars

\* ------------------------------------------------------------------ properties of the store
RowIds == 1..Len(rows)

\* C1: in every reachable state each worker has at most one row with
\* ended_at = null and assignment_type = PRIMARY, whatever the order of the
\* create and end calls, the store rejecting the inserts that break its rule.
OneActivePrimaryPerWorker ==
    \A w \in Workers : Cardinality(ActivePrimariesOfWorker(rows, w)) <= 1

\* A worker was given a second PRIMARY after the first one was ended.
SecondPrimaryAfterEnd ==
    \E i, j \in RowIds :
        /\ i < j
        /\ rows[i].worker_id = rows[j].worker_id
        /\ rows[i].assignment_type = PRIMARY /\ ~IsActive(rows[i])
        /\ rows[j].assignment_type = PRIMARY /\ IsActive(rows[j])

\* C3: in every reachable state a row has status "active" exactly when its
\* ended_at is null.
StatusMirrorsEndedAt ==
    \A i \in RowIds : (rows[i].status = ACTIVE) <=> IsActive(rows[i])

\* The table holds an active row and an ended one.
ActiveAndEndedRows ==
    \E i, j \in RowIds : IsActive(rows[i]) /\ ~IsActive(rows[j])

\* C7: every row a create call stored, and every row an end call ended, has
\* an audit entry with entity_type "assignment" and the row's id.
AssignmentCallsAudited ==
    \A i \in RowIds :
        \E k \in 1..Len(auditLog) :
            /\ auditLog[k].entity_type = "assignment"
            /\ auditLog[k].entity_id = rows[i].id

\* ------------------------------------------------------------------ properties of endAssignment
IsEnded(r) == ~IsActive(r)

\* The last call was an endAssignment that returned the row it updated.
EndReturned == last.op = "endAssignment" /\ last.out.ok

\* C2 as stated: once a row has been ended no later call changes its
\* lifecycle state, so completed stays completed and cancelled stays cancelled.
EndedStateNeverChanges ==
    [][\A i \in RowIds : IsEnded(rows[i]) => rows'[i].status = rows[i].status]_vars

\* C2, amended: once a row has been ended it is never active again (ended_at
\* stays non-null and status stays completed or cancelled), although a later
\* endAssignment may replace completed by cancelled or cancelled by completed.
EndedNeverActiveAgain ==
    [][\A i \in RowIds :
        IsEnded(rows[i]) =>
            /\ IsEnded(rows'[i])
            /\ rows'[i].status \in {COMPLETED, CANCELLED}]_vars

\* An endAssignment turned a completed row into a cancelled one.
CompletedBecameCancelled ==
    /\ EndReturned
    /\ last.prior # Null
    /\ last.prior.status = COMPLETED
    /\ last.out.data.status = CANCELLED

\* C8: an endAssignment on a row that an earlier endAssignment had already
\* ended leaves the row's ended_at non-null, in the table and in the row returned.
RepeatedEndKeepsEnded ==
    (EndReturned /\ last.prior # Null /\ IsEnded(last.prior)) =>
        /\ last.out.data.ended_at # Null
        /\ RowOf(rows, last.input.assignmentId) # Null
        /\ IsEnded(RowOf(rows, last.input.assignmentId))

\* A second endAssignment returned a row that was already ended.
EndedTwice == EndReturned /\ last.prior # Null /\ IsEnded(last.prior)

\* ------------------------------------------------------------------ properties of assignSecondary
HasValidIds(input) ==
    ~IsBlank(input.worker_id) /\ ~IsBlank(input.project_id) /\ ~IsBlank(input.position_id)

SecondaryCalled == last.op = "assignSecondary"

\* The call returned a row, and the table holds a row with that id.
StoredBy(out) == out.ok /\ RowOf(rows, out.data.id) # Null

\* C9 as stated: assignSecondary with valid ids and a non-blank
\* override_reason succeeds and stores a SECONDARY row in every store state.
SecondaryWithReasonAlwaysSucceeds ==
    (SecondaryCalled /\ HasValidIds(last.input) /\ ~IsBlank(last.input.override_reason)) =>
        /\ StoredBy(last.out)
        /\ RowOf(rows, last.out.data.id).assignment_type = SECONDARY

\* C9, amended: assignSecondary with valid ids and a non-blank override_reason
\* never fails validation; it stores a SECONDARY row with the trimmed reason
\* when the position has no active incumbent, and when it has one the store
\* rejects the insert and the call fails with CONFLICT.
SecondaryWithReasonSucceedsOnFreePosition ==
    (SecondaryCalled /\ HasValidIds(last.input) /\ ~IsBlank(last.input.override_reason)) =>
        IF last.prior = Null
        THEN /\ StoredBy(last.out)
             /\ RowOf(rows, last.out.data.id).assignment_type = SECONDARY
             /\ RowOf(rows, last.out.data.id).override_reason
                    = Str(Trim(last.input.override_reason.v))
             /\ IsActive(last.out.data)
        ELSE /\ ~last.out.ok
             /\ last.out.error.code = "CONFLICT"

\* Both cases happened: a SECONDARY was stored with its reason, and another
\* was refused because the position was taken.
SecondaryStored ==
    /\ SecondaryCalled
    /\ last.out.ok
    /\ last.input.override_reason = PaddedReason
    /\ \E i \in RowIds : IsEnded(rows[i])

\* C10: assignSecondary with a missing, null or white-space-only
\* override_reason fails with VALIDATION_ERROR.
SecondaryWithoutReasonRejected ==
    (SecondaryCalled /\ IsBlank(last.input.override_reason)) =>
        /\ ~last.out.ok
        /\ last.out.error.code = "VALIDATION_ERROR"

\* assignSecondary was called with valid ids and a white-space-only reason
\* on a position that was free.
SecondaryCalledWithBlankReason ==
    /\ SecondaryCalled
    /\ HasValidIds(last.input)
    /\ last.input.override_reason = Blank
    /\ last.prior = Null

\* ------------------------------------------------------------------ properties of the two screens
\* The answer the create page holds lists an active PRIMARY of its worker.
CpReadShowsPrimary(u) ==
    /\ u.cpItems # Undef
    /\ \E i \in 1..Len(u.cpItems.v) :
            /\ u.cpItems.v[i].worker_id = u.cpWorkerId
            /\ u.cpItems.v[i].assignment_type = PRIMARY

\* The answer the modal holds lists an active PRIMARY of worker w.
MReadShowsPrimary(u, w) ==
    /\ u.mActivePrimaries # Undef
    /\ \E i \in 1..Len(u.mActivePrimaries.v) : u.mActivePrimaries.v[i].worker_id = w

\* The conflict check that the mounted screen read shows an active PRIMARY of w.
ShownPrimary(u, w) ==
    IF u.route = "create" THEN u.cpWorkerId = w /\ CpReadShowsPrimary(u)
    ELSE MReadShowsPrimary(u, w)

CpComplete(form) ==
    Truthy(form.projectId) /\ Truthy(form.positionId) /\ Truthy(form.startDate)

ModalComplete(form) ==
    /\ Truthy(form.projectId) /\ Truthy(form.positionId) /\ Truthy(form.startDate)
    /\ Trim(form.rotationSchedule.v) # <<>>

\* This step is a write of the session: its screen changed and the table grew.
SessionWrote == ui' # ui /\ Len(rows') = Len(rows) + 1

WrittenRow == rows'[Len(rows')]

\* Whatever the user enters, the screen that read an active PRIMARY of its
\* worker says override is required and sends nothing but a SECONDARY with a reason.
ConflictReadDecidesSecondary ==
    /\ (ui.route = "create" /\ Truthy(ui.cpWorkerId) /\ CpReadShowsPrimary(ui)) =>
            /\ hasConflict(ui)
            /\ \A form \in CpForms :
                    onSubmit(ui, form).kind = "mutate" =>
                        /\ onSubmit(ui, form).payload.assignmentType = SECONDARY
                        /\ ~IsBlank(onSubmit(ui, form).payload.overrideReason)
    /\ (ui.route = "list" /\ Truthy(ui.mWorkerId) /\ MReadShowsPrimary(ui, ui.mWorkerId)) =>
            /\ requiresOverride(ui)
            /\ \A form \in ModalForms : submit(ui, form).kind # "mutate"
            /\ \A form \in ModalForms :
                    ModalComplete(form) => submit(ui, form).kind = "prompt"
    /\ \A overrideReason \in {Blank, PaddedReason} :
            (ui.mPending # Null /\ confirmOverride(ui, overrideReason).kind = "mutate") =>
                /\ confirmOverride(ui, overrideReason).payload.assignmentType = SECONDARY
                /\ ~IsBlank(confirmOverride(ui, overrideReason).payload.overrideReason)

\* C4: when the conflict check a screen read shows an active PRIMARY of worker
\* W, the screen reports that override is required, a request to assign W
\* resolves to SECONDARY, and the row the session writes for W is a SECONDARY
\* with an override reason, never a PRIMARY.
PrimaryHolderResolvesToSecondary ==
    /\ []ConflictReadDecidesSecondary
    /\ [][(SessionWrote /\ ShownPrimary(ui, WrittenRow.worker_id)) =>
            /\ WrittenRow.assignment_type = SECONDARY
            /\ WrittenRow.override_reason # Null]_vars

\* The session stored a SECONDARY with its reason for a worker who holds an
\* active PRIMARY on another position.
SecondaryBesidePrimary ==
    \E i, j \in RowIds :
        /\ rows[i].assignment_type = PRIMARY /\ IsActive(rows[i])
        /\ rows[j].assignment_type = SECONDARY /\ IsActive(rows[j])
        /\ rows[j].worker_id = rows[i].worker_id
        /\ rows[j].override_reason = CoveringShortage

\* C5: when the conflict check a screen read shows no active PRIMARY of worker
\* W, whatever other active rows W has, the screen reports no conflict and a
\* complete request to assign W resolves to PRIMARY.
NoPrimaryResolvesToPrimary ==
    /\ (ui.route = "create" /\ Truthy(ui.cpWorkerId)
            /\ ui.cpItems # Undef /\ ~CpReadShowsPrimary(ui)) =>
            /\ ~hasConflict(ui)
            /\ \A form \in CpForms :
                    CpComplete(form) =>
                        /\ onSubmit(ui, form).kind = "mutate"
                        /\ onSubmit(ui, form).payload.assignmentType = PRIMARY
    /\ (ui.route = "list" /\ Truthy(ui.mWorkerId)
            /\ ui.mActivePrimaries # Undef /\ ~MReadShowsPrimary(ui, ui.mWorkerId)) =>
            /\ ~requiresOverride(ui)
            /\ \A form \in ModalForms :
                    ModalComplete(form) =>
                        /\ submit(ui, form).kind = "mutate"
                        /\ submit(ui, form).payload.assignmentType = PRIMARY

\* The mutation of the mounted screen failed on a PRIMARY request.
PrimaryRejected ==
    /\ ui.mutation.status = "error"
    /\ ui.mutation.variables.assignmentType = PRIMARY

\* C6: a PRIMARY request that passed the screen's conflict check and whose
\* insert the store rejects ends with the typed error CONFLICT; the failing
\* step writes no row, keeps the request a PRIMARY, leaves the screen open and,
\* on the create page, shows the error's message.
LostRaceSurfacesConflict ==
    /\ [](PrimaryRejected => ui.mutation.error.code = "CONFLICT")
    /\ [][(ui'.mutation # ui.mutation /\ ui'.mutation.status = "error"
                /\ ui'.mutation.variables.assignmentType = PRIMARY) =>
            /\ ui'.mutation.error.code = "CONFLICT"
            /\ rows' = rows
            /\ ui'.route = ui.route
            /\ ui.route = "create" => ui'.cpFormError = Str(ui'.mutation.error.message)
            /\ ui.route = "list" => ui'.mOpen /\ ~ui'.mOverrideOpen]_vars

\* The session's PRIMARY request was rejected with CONFLICT while the worker
\* holds the active PRIMARY another session stored on the other position.
PrimaryLostTheRace ==
    /\ PrimaryRejected
    /\ ui.mutation.error.code = "CONFLICT"
    /\ \E i \in RowIds :
            /\ rows[i].worker_id = ui.mutation.variables.workerId
            /\ rows[i].assignment_type = PRIMARY /\ IsActive(rows[i])
            /\ rows[i].position_id # ui.mutation.variables.positionId

\* ------------------------------------------------------------------ listing after ending
\* listAssignments as a call: the params and the rows returned are kept in last.
CallListAssignments(params) ==
    /\ \E answer \in listAssignments(params, rows) :
            last' = Call("listAssignments", params, Returned(answer), Null)
    /\ UNCHANGED <<rows, now, auditLog, projects, positions, auth, ui>>

ListSpecParams ==
    {ListParams(includeEnded, workerId, type) :
        includeEnded \in BOOLEAN, workerId \in {Undef, W1}, type \in {Undef, PRIMARY}}

ListSpecEndInputs ==
    {EndInput(RowId(i), endStatus, Undef) :
        i \in 1..MaxRows, endStatus \in {Undef, CANCELLED}}

NextList ==
    \/ AssignPrimary(EndSpecPrimaryInput) /\ UNCHANGED last
    \/ StartTempCoverage(EndSpecTempInput) /\ UNCHANGED last
    \/ \E input \in ListSpecEndInputs : CallEndAssignment(input)
    \/ \E params \in ListSpecParams : CallListAssignments(params)

ListSpec == Init /\ [][NextList]_vars

\* The last call was a listAssignments for active rows only.
ListedActive == last.op = "listAssignments" /\ ~last.input.includeEnded

\* The ids of the rows the last listAssignments returned.
ListedIds == {last.out.data[k].id : k \in 1..Len(last.out.data)}

\* C11: endAssignment with endStatus "cancelled" on an active row returns that
\* row with ended_at set and status "cancelled", and a listAssignments call
\* with includeEnded = false made at any later time returns no ended row.
CancelledRowLeavesActiveList ==
    /\ (EndReturned /\ last.prior # Null /\ IsActive(last.prior)
            /\ last.input.endStatus = CANCELLED) =>
            /\ last.out.data.id = last.input.assignmentId
            /\ last.out.data.ended_at # Null
            /\ last.out.data.status = CANCELLED
            /\ RowOf(rows, last.input.assignmentId) = last.out.data
    /\ ListedActive =>
            \A i \in RowIds : IsEnded(rows[i]) => rows[i].id \notin ListedIds

\* The active rows were listed while the table held a cancelled row and an
\* active one, and the answer holds the active one.
ListedBesideCancelled ==
    /\ ListedActive
    /\ ListedIds # {}
    /\ \E i \in RowIds : rows[i].status = CANCELLED /\ IsEnded(rows[i])

\* ------------------------------------------------------------------ the override scenario
\* The modal has asked for an override and holds the request.
OverrideAsked == ui.route = "list" /\ ui.mOpen /\ ui.mOverrideOpen /\ ui.mPending # Null

\* The rows the table had are the same after this step.
RowsKept == \A i \in RowIds : rows'[i] = rows[i]

\* C12: a primary request for a worker whose active PRIMARY the modal has read
\* writes nothing before a non-blank reason is supplied: submit only asks for
\* the override, and a blank reason is refused. Once the reason "covering
\* shortage" is supplied and the requested position is free, the table gets a
\* new active SECONDARY row of the worker with that reason, and every row it
\* had, the worker's PRIMARY included, is unchanged.
OverrideScenario ==
    /\ [](OverrideAsked =>
            /\ confirmOverride(ui, Blank).kind = "return"
            /\ (/\ ActiveIncumbentsOfPosition(rows, ui.mPending.positionId) = {}
                /\ Len(rows) < MaxRows) =>
                    LET r == assignWorker(confirmOverride(ui, PaddedReason).payload, rows, now)
                    IN  /\ r.out.ok
                        /\ Len(r.table) = Len(rows) + 1
                        /\ r.out.data.worker_id = ui.mPending.workerId
                        /\ r.out.data.assignment_type = SECONDARY
                        /\ r.out.data.override_reason = CoveringShortage
                        /\ r.out.data.ended_at = Null)
    /\ [][(ui.route = "list" /\ ~ui.mOverrideOpen /\ Truthy(ui.mWorkerId)
                /\ MReadShowsPrimary(ui, ui.mWorkerId) /\ ui' # ui) =>
            rows' = rows]_vars
    /\ [][(OverrideAsked /\ SessionWrote) =>
            /\ RowsKept
            /\ WrittenRow.worker_id = ui.mPending.workerId
            /\ WrittenRow.position_id = ui.mPending.positionId
            /\ WrittenRow.assignment_type = SECONDARY
            /\ WrittenRow.override_reason = CoveringShortage
            /\ WrittenRow.ended_at = Null
            /\ ui'.mutation.status = "success"
            /\ ~ui'.mOpen]_vars

\* The modal stored the SECONDARY of W1 on P2 with the reason "covering
\* shortage" while W1's PRIMARY on P1 is active.
OverrideAccepted ==
    /\ ui.mutation.status = "success"
    /\ ui.mutation.variables.assignmentType = SECONDARY
    /\ ui.mutation.variables.workerId = W1
    /\ \E i, j \in RowIds :
            /\ rows[i].worker_id = W1 /\ rows[i].position_id = P1
            /\ rows[i].assignment_type = PRIMARY /\ IsActive(rows[i])
            /\ rows[j].worker_id = W1 /\ rows[j].position_id = P2
            /\ rows[j].assignment_type = SECONDARY /\ IsActive(rows[j])
            /\ rows[j].override_reason = CoveringShortage

\* ------------------------------------------------------------------ more properties of the store
\* C13: in every reachable state each position has at most one row with
\* ended_at = null whose type is PRIMARY or SECONDARY, whatever the order of
\* the create and end calls, the store rejecting the inserts that break its rule.
OneActiveIncumbentPerPosition ==
    \A p \in Positions : Cardinality(ActiveIncumbentsOfPosition(rows, p)) <= 1

\* A position whose PRIMARY was ended has a SECONDARY as its active incumbent.
IncumbentReplaced ==
    \E i, j \in RowIds :
        /\ i < j
        /\ rows[i].position_id = rows[j].position_id
        /\ rows[i].assignment_type = PRIMARY /\ ~IsActive(rows[i])
        /\ rows[j].assignment_type = SECONDARY /\ IsActive(rows[j])

\* C14: in every reachable state a stored row of type SECONDARY or
\* TEMP_COVERAGE has an override_reason that is a string with something other
\* than white space in it, and a stored row of type PRIMARY has override_reason
\* null, also when the caller passed a reason with the PRIMARY request.
ReasonMatchesType ==
    \A i \in RowIds :
        IF rows[i].assignment_type = PRIMARY
        THEN rows[i].override_reason = Null
        ELSE /\ IsString(rows[i].override_reason)
             /\ ~IsBlank(rows[i].override_reason)

\* assignPrimary was called with a reason and stored its row, and the table
\* also holds a row of another type.
PrimaryStoredDespiteReason ==
    /\ last.op = "assignPrimary"
    /\ last.out.ok
    /\ last.input.override_reason = CoveringShortage
    /\ RowOf(rows, last.out.data.id) # Null
    /\ \E i \in RowIds : rows[i].assignment_type # PRIMARY

\* C15: no create call and no endAssignment removes a row: every id the table
\* holds before a step it holds after it, at the same place.
RowsNeverRemoved ==
    [][/\ Len(rows') >= Len(rows)
       /\ \A i \in RowIds : rows'[i].id = rows[i].id]_vars

\* Every row of a full table has been ended, and all of them are still stored.
AllEndedAllStored ==
    /\ Len(rows) = MaxRows
    /\ \A i \in RowIds : IsEnded(rows[i]) /\ rows[i].id = RowId(i)

\* ------------------------------------------------------------------ failed validation
\* Every create and end call observed, with inputs that miss fields.
ValidationPrimaryInputs ==
    {IncumbentInput(ValidIds[1], ValidIds[2], ValidIds[3], Undef, Undef)}
    \cup {IncumbentInput(ids[1], ids[2], ids[3], Undef, Undef) : ids \in InvalidIds}

ValidationSecondaryInputs ==
    {IncumbentInput(ValidIds[1], ValidIds[2], ValidIds[3], reason, Undef) :
        reason \in {Undef, Blank, CoveringShortage}}
    \cup {IncumbentInput(ids[1], ids[2], ids[3], Undef, Undef) : ids \in InvalidIds}

ValidationTempInputs ==
    {TempInput(ValidIds[1], ValidIds[2], ValidIds[3], start, end, reason, DefaultRotation) :
        start \in {Blank, CoverageStart}, end \in {Undef, Blank, CoverageEnd},
        reason \in {Blank, CoveringShortage}}
    \cup {TempInput(ids[1], ids[2], ids[3], Undef, Undef, Undef, Undef) : ids \in InvalidIds}

ValidationEndInputs == {EndInput(id, Undef, Undef) : id \in {RowId(1), Undef, Blank, Empty}}

NextValidation ==
    \/ \E input \in ValidationPrimaryInputs : CallAssignPrimary(input)
    \/ \E input \in ValidationSecondaryInputs : CallAssignSecondary(input)
    \/ \E input \in ValidationTempInputs : CallStartTempCoverage(input)
    \/ \E input \in ValidationEndInputs : CallEndAssignment(input)

ValidationSpec == Init /\ [][NextValidation]_vars

\* The error the checks of a call give before anything is sent to the store.
ValidationOf(call) ==
    CASE call.op = "assignPrimary" -> IdsValidation(call.input)
      [] call.op = "assignSecondary" -> SecondaryValidation(call.input)
      [] call.op = "startTempCoverage" -> TempValidation(call.input)
      [] call.op = "endAssignment" ->
            IF IsBlank(call.input.assignmentId) THEN Required("assignmentId") ELSE NoError
      [] OTHER -> NoError

\* C16: a create or end call whose input fails a check of the call ends with
\* VALIDATION_ERROR and leaves the table exactly as it was.
FailedValidationWritesNothing ==
    [][(last' # last /\ ValidationOf(last') # NoError) =>
            /\ rows' = rows
            /\ ~last'.out.ok
            /\ last'.out.error = ValidationOf(last')
            /\ last'.out.error.code = "VALIDATION_ERROR"]_vars

\* A startTempCoverage without an end date, and an endAssignment without an
\* id, failed on a table that holds a row.
TempFailedValidation ==
    /\ last.op = "startTempCoverage"
    /\ ~last.out.ok
    /\ HasValidIds(last.input)
    /\ last.input.assignment_end_date = Undef
    /\ Len(rows) > 0

\* The fields a create call requires, in the order the rule lists them.
RequiredFields(op) ==
    CASE op = "assignPrimary" -> <<"worker_id", "project_id", "position_id">>
      [] op = "assignSecondary" ->
            <<"worker_id", "project_id", "position_id", "override_reason">>
      [] op = "startTempCoverage" ->
            <<"worker_id", "project_id", "position_id",
              "assignment_start_date", "assignment_end_date", "override_reason">>
      [] OTHER -> <<>>

\* The places in RequiredFields of the fields the input leaves missing or blank.
MissingAt(call) ==
    {k \in 1..Len(RequiredFields(call.op)) : IsBlank(call.input[RequiredFields(call.op)[k]])}

FirstMissing(call) ==
    RequiredFields(call.op)[CHOOSE k \in MissingAt(call) : \A j \in MissingAt(call) : k <= j]

\* C17: a create call whose input misses required fields fails with a
\* VALIDATION_ERROR whose message starts with the name of the first missing
\* field in the order worker_id, project_id, position_id, then for SECONDARY
\* override_reason and for TEMP_COVERAGE assignment_start_date,
\* assignment_end_date, override_reason.
ErrorNamesFirstMissingField ==
    MissingAt(last) # {} =>
        /\ ~last.out.ok
        /\ last.out.error.code = "VALIDATION_ERROR"
        /\ last.out.error.message[1] = FirstMissing(last)

\* A startTempCoverage with valid ids that missed its start date, its end
\* date and its reason was refused.
SeveralFieldsMissing ==
    /\ last.op = "startTempCoverage"
    /\ Cardinality(MissingAt(last)) >= 3
    /\ HasValidIds(last.input)
    /\ ~last.out.ok


\* C18: startTempCoverage called with a missing or blank assignment_end_date
\* fails with error code VALIDATION_ERROR, whatever the other fields hold.
TempWithoutEndDateRejected ==
    (last.op = "startTempCoverage" /\ IsBlank(last.input.assignment_end_date)) =>
        /\ ~last.out.ok
        /\ last.out.error.code = "VALIDATION_ERROR"

\* startTempCoverage was called with every field but the end date, and refused.
TempCalledWithoutEndDate ==
    /\ last.op = "startTempCoverage"
    /\ HasValidIds(last.input)
    /\ last.input.assignment_start_date = CoverageStart
    /\ last.input.override_reason = CoveringShortage
    /\ last.input.assignment_end_date = Undef
    /\ ~last.out.ok
    /\ last.out.error.message[1] = "assignment_end_date"


\* C19: an assignPrimary that creates a row from an input whose
\* rotation_schedule is missing, null or only white space returns and stores
\* that row with rotation_schedule "14/14".
BlankRotationStoredAsDefault ==
    (last.op = "assignPrimary" /\ IsBlank(last.input.rotation_schedule) /\ last.out.ok) =>
        /\ last.out.data.rotation_schedule = DefaultRotation
        /\ RowOf(rows, last.out.data.id) # Null
        /\ RowOf(rows, last.out.data.id).rotation_schedule = DefaultRotation

\* assignPrimary stored a row from an input whose rotation_schedule was only
\* white space.
PrimaryStoredFromBlankRotation ==
    /\ last.op = "assignPrimary"
    /\ last.input.rotation_schedule = Blank
    /\ last.out.ok
    /\ RowOf(rows, last.out.data.id) # Null
    /\ RowOf(rows, last.out.data.id).assignment_type = PRIMARY


\* ---- the store's errors, with the text the server may put in the message
\* The message of a PostgrestError is the server's text: after the fixed words
\* it quotes the name of the constraint or of the column, and a trigger or a
\* policy may add words of its own.
StoreTexts ==
    {<<>>, <<"assignments_active_idx">>, <<"Permission", "Denied">>,
     <<"permission", "denied">>, <<"JWT">>, <<"Not", "Authenticated">>}

\* StoreInsert, the server ending its message with the words said.
StoreInsertSaying(table, payload, said) ==
    LET r == StoreInsert(table, payload)
    IN  IF r.res.error = Null THEN r
        ELSE [table |-> r.table,
              res |-> PgFail(PgError(r.res.error.code, r.res.error.message \o said))]

\* assertOk(await supabase.schema("api").from("assignments").insert([payload])
\*     .select("*").single()), the tail of each create function
insertAssignment(payload, table, said) ==
    LET r == StoreInsertSaying(table, payload, said)
    IN  Outcome(r.table, assertOk(r.res))

\* The payloads the create functions build from inputs that pass their checks.
InsertPayloads ==
    {PrimaryPayload(input, now) : input \in CoreIncumbentInputs}
    \cup {SecondaryPayload(input, now) :
            input \in {i \in CoreIncumbentInputs : i.override_reason = CoveringShortage}}
    \cup {TempPayload(TempInput(w, PR1, P1, CoverageStart, CoverageEnd,
                                CoveringShortage, rotation)) :
            w \in Workers, rotation \in {Undef, Blank, DefaultRotation}}

\* prior: for an insert, the PostgrestError the store answered, or Null.
CallInsertAssignment(payload, said) ==
    LET r == insertAssignment(payload, rows, said)
    IN  /\ Len(rows) < MaxRows
        /\ rows' = r.table
        /\ last' = Call("insertAssignment", payload, r.out,
                        StoreInsertSaying(rows, payload, said).res.error)
        /\ UNCHANGED <<now, auditLog, projects, positions, auth, ui>>

NextStoreError ==
    \E payload \in InsertPayloads, said \in StoreTexts : CallInsertAssignment(payload, said)

StoreErrorSpec == Init /\ [][NextStoreError]_vars

\* C20: an insert the store rejects with a uniqueness violation (23505)
\* reaches the caller as CONFLICT and one it rejects with a not-null violation
\* (23502) as VALIDATION_ERROR, whatever words the store's message holds.
InsertErrorCodeFollowsViolation ==
    (last.op = "insertAssignment" /\ ~last.out.ok) =>
        /\ last.prior.code = "23505" => last.out.error.code = "CONFLICT"
        /\ last.prior.code = "23502" => last.out.error.code = "VALIDATION_ERROR"


\* The same mapping, for the messages that do not hold "permission denied" in
\* any letter case: these follow the store's code.
InsertErrorCodeFollowsViolationUnlessDenied ==
    (/\ last.op = "insertAssignment"
     /\ ~last.out.ok
     /\ ~Includes(toLowerCase(last.prior.message), <<"permission", "denied">>)) =>
        /\ last.prior.code = "23505" => last.out.error.code = "CONFLICT"
        /\ last.prior.code = "23502" => last.out.error.code = "VALIDATION_ERROR"


\* C21: an endAssignment called with a non-blank id of a stored row and with
\* neither endStatus nor endedAtIso returns that row with status "completed"
\* and ended_at the time of the call, and the table holds the row so.
EndDefaultsToCompletedNow ==
    [][(/\ last' # last
        /\ last'.op = "endAssignment"
        /\ last'.input.endStatus = Undef
        /\ last'.input.endedAtIso = Undef
        /\ last'.prior # Null) =>
            /\ last'.out.ok
            /\ last'.out.data.status = COMPLETED
            /\ last'.out.data.ended_at = toISOString(now)
            /\ RowOf(rows', last'.input.assignmentId) = last'.out.data]_vars

\* A row created at the first instant was ended at the second by a call that
\* gave only its id.
EndedByIdOnly ==
    /\ EndReturned
    /\ last.input.endStatus = Undef
    /\ last.input.endedAtIso = Undef
    /\ last.prior # Null /\ IsActive(last.prior)
    /\ last.out.data.status = COMPLETED
    /\ last.out.data.ended_at = toISOString(2)


\* ------------------------------------------------------------------ createProject
MaxProjects == 2

CU1 == Str(<<"CU1">>)
StatusActiveId == Str(<<"S1">>)
PaddedAlpha == Str(<<" ", "Alpha", " ">>)

\* A JavaScript array
Arr(seq) == [t |-> "array", v |-> seq]

\* defaultPositions()
defaultPositions ==
    <<[code |-> Str(<<"D1">>), shift |-> Str(<<"day">>), rotation |-> Undef],
      [code |-> Str(<<"D2">>), shift |-> Str(<<"day">>), rotation |-> Undef],
      [code |-> Str(<<"N1">>), shift |-> Str(<<"night">>), rotation |-> Undef],
      [code |-> Str(<<"N2">>), shift |-> Str(<<"night">>), rotation |-> Undef]>>

\* getActiveProjectStatusId over the rows listProjectStatuses(true) returned:
\* the id of the first row whose code is "active" in any letter case, else of
\* the first whose label is, else null.
getActiveProjectStatusId(statusRows) ==
    LET isActive(x) == toLowerCase(Coalesce(x, Str(<<>>)).v) = <<"active">>
        byCode == {i \in 1..Len(statusRows) : isActive(statusRows[i].code)}
        byLabel == {i \in 1..Len(statusRows) : isActive(statusRows[i].label)}
        first(S) == CHOOSE i \in S : \A j \in S : i <= j
    IN  IF byCode # {} THEN statusRows[first(byCode)].id
        ELSE IF byLabel # {} THEN statusRows[first(byLabel)].id
        ELSE Null

\* The database as createProject sees it.
Db(p, pos, log) == [projects |-> p, positions |-> pos, auditLog |-> log]

ProjectOutcome(db, out) == [db |-> db, out |-> out]

\* ProjectCreate, the fields createProject reads that decide its path.
ProjectCreate(customer, name, status, rotation, posns) ==
    [customer_id |-> customer, project_name |-> name, status_id |-> status,
     default_rotation |-> rotation, positions |-> posns]

ProjectRow(db, payload, statusId) ==
    [id |-> Str(<<"PR", ToString(Len(db.projects) + 1)>>),
     customer_id |-> payload.customer_id,
     project_name |-> Str(Trim(payload.project_name.v)),
     default_rotation |-> Coalesce(payload.default_rotation, DefaultRotation),
     status_id |-> statusId]

PositionRows(project, payload) ==
    LET requested == IF ~IsNullish(payload.positions) /\ Len(payload.positions.v) # 0
                     THEN payload.positions.v ELSE defaultPositions
    IN  [k \in 1..Len(requested) |->
            [project_id |-> project.id,
             name |-> Str(Trim(requested[k].code.v)),
             shift |-> Coalesce(requested[k].shift, Null),
             rotation_schedule |->
                 Coalesce(requested[k].rotation,
                          Coalesce(payload.default_rotation, DefaultRotation)),
             status |-> ACTIVE]]

AuditOfProject(project) ==
    [entity_type |-> "project", entity_id |-> project.id, action |-> "CREATE"]

\* What the store answers to the requests of one call: the rows of
\* project_statuses or an error, and for each of the three inserts an error or
\* Null when it accepts the insert.
StoreAnswers(statuses, projectErr, positionsErr, auditErr) ==
    [statuses |-> statuses, project |-> projectErr,
     positions |-> positionsErr, audit |-> auditErr]

DbError(e) == AppError("DB_ERROR", e.message)

\* createProject whose audit step cannot make the call fail.
createProjectAuditBestEffort(payload, db, ans) ==
    IF IsBlank(payload.customer_id)
    THEN ProjectOutcome(db, Thrown(Required("customer_id")))
    ELSE IF IsBlank(payload.project_name)
    THEN ProjectOutcome(db, Thrown(AppError("VALIDATION_ERROR",
                                            <<"Project", "name", "is", "required.">>)))
    ELSE IF IsNullish(payload.status_id) /\ ans.statuses.error # Null
    THEN ProjectOutcome(db, Thrown(DbError(ans.statuses.error)))
    ELSE LET statusId == IF IsNullish(payload.status_id)
                         THEN getActiveProjectStatusId(ans.statuses.data.v)
                         ELSE payload.status_id
         IN  IF statusId \in {Null, Empty}
             THEN ProjectOutcome(db, Thrown(AppError("DB_ERROR",
                      <<"No", "active", "Project", "Status", "found.">>)))
             ELSE IF ans.project # Null
             THEN ProjectOutcome(db, Thrown(mapPostgrestError(ans.project)))
             ELSE LET project == ProjectRow(db, payload, statusId)
                      db1 == [db EXCEPT !.projects = Append(@, project)]
                  IN  IF ans.positions # Null
                      THEN ProjectOutcome(db1, Thrown(DbError(ans.positions)))
                      ELSE LET db2 == [db1 EXCEPT
                                   !.positions = @ \o PositionRows(project, payload)]
                           IN  IF ans.audit # Null
                               THEN ProjectOutcome(db2, Returned(project))
                               ELSE ProjectOutcome(
                                        [db2 EXCEPT !.auditLog =
                                            logAudit(@, AuditOfProject(project))],
                                        Returned(project))

\* createProject that removes the project row when a later insert fails.
createProjectRollingBack(payload, db, ans) ==
    LET r == createProjectAuditBestEffort(payload, db, ans)
    IN  IF r.out.ok /\ ans.audit # Null
        THEN ProjectOutcome(db, Thrown(DbError(ans.audit)))
        ELSE IF ~r.out.ok THEN ProjectOutcome(db, r.out)
        ELSE r

createProject(payload, db, ans) ==
    IF IsBlank(payload.customer_id)
    THEN ProjectOutcome(db, Thrown(Required("customer_id")))
    ELSE IF IsBlank(payload.project_name)
    THEN ProjectOutcome(db, Thrown(AppError("VALIDATION_ERROR",
                                            <<"Project", "name", "is", "required.">>)))
    ELSE IF IsNullish(payload.status_id) /\ ans.statuses.error # Null
    THEN ProjectOutcome(db, Thrown(DbError(ans.statuses.error)))
    ELSE LET statusId == IF IsNullish(payload.status_id)
                         THEN getActiveProjectStatusId(ans.statuses.data.v)
                         ELSE payload.status_id
         IN  IF statusId \in {Null, Empty}
             THEN ProjectOutcome(db, Thrown(AppError("DB_ERROR",
                      <<"No", "active", "Project", "Status", "found.">>)))
             ELSE IF ans.project # Null
             THEN ProjectOutcome(db, Thrown(mapPostgrestError(ans.project)))
             ELSE LET project == ProjectRow(db, payload, statusId)
                      db1 == [db EXCEPT !.projects = Append(@, project)]
                  IN  IF ans.positions # Null
                      THEN ProjectOutcome(db1, Thrown(DbError(ans.positions)))
                      ELSE LET db2 == [db1 EXCEPT
                                   !.positions = @ \o PositionRows(project, payload)]
                           IN  IF ans.audit # Null
                               THEN ProjectOutcome(db2, Thrown(DbError(ans.audit)))
                               ELSE ProjectOutcome(
                                        [db2 EXCEPT !.auditLog =
                                            logAudit(@, AuditOfProject(project))],
                                        Returned(project))

\* ---- the calls of createProject and the answers of the store
ConnectionLost == PgError("08006", <<"connection", "failure">>)

StatusRowsWithActive ==
    <<[id |-> Str(<<"S0">>), code |-> Str(<<"closed">>), label |-> Null],
      [id |-> StatusActiveId, code |-> Null, label |-> Str(<<"active">>)]>>

ProjectPayloads ==
    {ProjectCreate(CU1, PaddedAlpha, Undef, Undef, Undef),
     ProjectCreate(CU1, PaddedAlpha, StatusActiveId, SevenSeven,
                   Arr(<<[code |-> Str(<<"D1">>), shift |-> Undef, rotation |-> Undef]>>)),
     ProjectCreate(CU1, PaddedAlpha, Undef, Undef, Arr(<<>>)),
     ProjectCreate(Blank, PaddedAlpha, Undef, Undef, Undef),
     ProjectCreate(CU1, Blank, StatusActiveId, Undef, Undef)}

ProjectAnswers ==
    {StoreAnswers(statuses, projectErr, positionsErr, auditErr) :
        statuses \in {PgOk(Arr(<<>>)), PgOk(Arr(StatusRowsWithActive)), PgFail(ConnectionLost)},
        projectErr \in {Null, ConnectionLost},
        positionsErr \in {Null, ConnectionLost},
        auditErr \in {Null, ConnectionLost}}

\* prior: for createProject, what the store answered to the call.
CallCreateProject(payload, ans) ==
    LET r == createProject(payload, Db(projects, positions, auditLog), ans)
    IN  /\ Len(projects) < MaxProjects
        /\ projects' = r.db.projects
        /\ positions' = r.db.positions
        /\ auditLog' = r.db.auditLog
        /\ last' = Call("createProject", payload, r.out, ans)
        /\ UNCHANGED <<rows, now, ui, auth>>

NextProject ==
    \E payload \in ProjectPayloads, ans \in ProjectAnswers : CallCreateProject(payload, ans)

ProjectSpec == Init /\ [][NextProject]_vars


\* ------------------------------------------------------------------ properties of createProject
\* The call passed its checks, found a status and the store accepted the
\* project row.
ProjectInsertAccepted(call) ==
    /\ call.op = "createProject"
    /\ ~IsBlank(call.input.customer_id)
    /\ ~IsBlank(call.input.project_name)
    /\ \/ call.input.status_id = StatusActiveId
       \/ /\ IsNullish(call.input.status_id)
          /\ call.prior.statuses.error = Null
          /\ getActiveProjectStatusId(call.prior.statuses.data.v) # Null
    /\ call.prior.project = Null

PositionsOf(table, projectId) == {k \in 1..Len(table) : table[k].project_id = projectId}

AuditsOf(log, projectId) ==
    {k \in 1..Len(log) : log[k].entity_type = "project" /\ log[k].entity_id = projectId}

\* C22 as stated: when the project and its positions are written and the
\* insert into audit_logs then fails, the project stays stored and the caller
\* is told that createProject succeeded.
AuditFailureLeavesSuccess ==
    [][(/\ ProjectInsertAccepted(last')
        /\ last'.prior.positions = Null
        /\ last'.prior.audit # Null) =>
            /\ Len(projects') = Len(projects) + 1
            /\ last'.out.ok]_vars

\* C28: when the store accepts the project row and then refuses the positions
\* or the audit entry, createProject throws DB_ERROR and the project row is
\* stored all the same: without positions and without audit entry when the
\* positions were refused, with its positions and without audit entry when the
\* audit entry was refused; and no later call removes a stored project.
FailedCreateKeepsProject ==
    [][/\ Len(projects') >= Len(projects)
       /\ SubSeq(projects', 1, Len(projects)) = projects
       /\ (/\ ProjectInsertAccepted(last')
           /\ (last'.prior.positions # Null \/ last'.prior.audit # Null)) =>
              /\ ~last'.out.ok
              /\ last'.out.error.code = "DB_ERROR"
              /\ Len(projects') = Len(projects) + 1
              /\ auditLog' = auditLog
              /\ AuditsOf(auditLog', projects'[Len(projects')].id) = {}
              /\ IF last'.prior.positions # Null
                 THEN positions' = positions
                 ELSE PositionsOf(positions', projects'[Len(projects')].id) # {}]_vars

\* createProject reported a failure, and the table holds a project that has
\* neither positions nor an audit entry.
FailedCreateLeftBareProject ==
    /\ last.op = "createProject"
    /\ ~last.out.ok
    /\ ProjectInsertAccepted(last)
    /\ last.prior.positions # Null
    /\ \E i \in 1..Len(projects) :
          /\ PositionsOf(positions, projects[i].id) = {}
          /\ AuditsOf(auditLog, projects[i].id) = {}


\* ------------------------------------------------------------------ properties of startTempCoverage
TempRequiredFieldsValid(input) ==
    /\ HasValidIds(input)
    /\ ~IsBlank(input.assignment_start_date)
    /\ ~IsBlank(input.assignment_end_date)
    /\ ~IsBlank(input.override_reason)

TempRowIds(table) == {i \in 1..Len(table) : table[i].assignment_type = TEMP_COVERAGE}

\* C23: the outcome of a startTempCoverage with valid required fields does not
\* depend on the rows the table holds: it succeeds or fails exactly as it does
\* on an empty table and never with CONFLICT, also when the worker or the
\* position has an active assignment; and a TEMP_COVERAGE row enters the table
\* only in a step of startTempCoverage, which returns that row.
TempCoverageIgnoresConflicts ==
    /\ []((last.op = "startTempCoverage" /\ TempRequiredFieldsValid(last.input)) =>
            /\ last.out.ok = startTempCoverage(last.input, <<>>, 1).out.ok
            /\ last.out.error.code = startTempCoverage(last.input, <<>>, 1).out.error.code
            /\ last.out.error.code # "CONFLICT")
    /\ [][\A i \in TempRowIds(rows') \ TempRowIds(rows) :
            /\ last'.op = "startTempCoverage"
            /\ last'.out.ok
            /\ last'.out.data = rows'[i]]_vars

\* startTempCoverage stored a row for a worker with an active PRIMARY on a
\* position with an active incumbent.
TempStoredOverIncumbent ==
    /\ last.op = "startTempCoverage"
    /\ last.out.ok
    /\ last.prior # Null
    /\ ActivePrimariesOfWorker(rows, last.input.worker_id) # {}
    /\ ActiveIncumbentsOfPosition(rows, last.input.position_id) # {}
    /\ RowOf(rows, last.out.data.id).assignment_type = TEMP_COVERAGE


\* C24 as stated: a startTempCoverage with valid required fields and a blank
\* rotation_schedule succeeds and stores a row whose rotation_schedule is null.
TempBlankRotationStoresNull ==
    (/\ last.op = "startTempCoverage"
     /\ TempRequiredFieldsValid(last.input)
     /\ IsBlank(last.input.rotation_schedule)) =>
        /\ last.out.ok
        /\ RowOf(rows, last.out.data.id) # Null
        /\ RowOf(rows, last.out.data.id).rotation_schedule = Null


\* ------------------------------------------------------------------ the conflict checks
\* useWorkerActiveAssignment's queryFn: items[0] ?? null of
\* listAssignmentsByWorker(workerId, false), for each answer the list can give
workerActiveAssignment(workerId, table) ==
    {IF items = <<>> THEN Null ELSE items[1] :
        items \in listAssignmentsByWorker(workerId, FALSE, table)}

\* useWorkerActiveAssignment(workerId), enabled: Boolean(workerId)
CallWorkerActiveAssignment(workerId) ==
    /\ Truthy(workerId)
    /\ \E found \in workerActiveAssignment(workerId, rows) :
            last' = Call("useWorkerActiveAssignment", workerId, Returned(found), Null)
    /\ UNCHANGED <<rows, now, auditLog, projects, positions, auth, ui>>

CallGetActiveIncumbentForPosition(positionId) ==
    /\ last' = Call("getActiveIncumbentForPosition", positionId,
                    Returned(getActiveIncumbentForPosition(positionId, rows)), Null)
    /\ UNCHANGED <<rows, now, auditLog, projects, positions, auth, ui>>

ConflictSpecSecondaryInput == IncumbentInput(W2, PR2, P2, CoveringShortage, Undef)

NextConflict ==
    \/ AssignPrimary(EndSpecPrimaryInput) /\ UNCHANGED last
    \/ AssignSecondary(ConflictSpecSecondaryInput) /\ UNCHANGED last
    \/ StartTempCoverage(EndSpecTempInput) /\ UNCHANGED last
    \/ \E input \in PlainEndInputs : EndAssignment(input) /\ UNCHANGED last
    \/ \E w \in Workers : CallWorkerActiveAssignment(w)
    \/ \E p \in Positions \cup {Blank} : CallGetActiveIncumbentForPosition(p)

ConflictSpec == Init /\ [][NextConflict]_vars

\* Of the rows at the places S, the one created last, or null when S is empty.
LatestOf(table, S) ==
    IF S = {} THEN Null ELSE table[CHOOSE i \in S : \A j \in S : j <= i]

\* C25 as stated: each conflict check returns, without an error, null when no
\* active row matches and otherwise the matching active row created last: the
\* worker-level check among the worker's active PRIMARY rows, the
\* position-level check among the position's active PRIMARY and SECONDARY rows.
ConflictCheckReturnsLatestMatch ==
    [][/\ (last' # last /\ last'.op = "useWorkerActiveAssignment") =>
            /\ last'.out.ok
            /\ last'.out.data = LatestOf(rows, ActivePrimariesOfWorker(rows, last'.input))
       /\ (last' # last /\ last'.op = "getActiveIncumbentForPosition") =>
            /\ last'.out.ok
            /\ last'.out.data = LatestOf(rows, ActiveIncumbentsOfPosition(rows, last'.input))]_vars

\* The position-level half of C25 alone.
PositionCheckReturnsLatestIncumbent ==
    [][(last' # last /\ last'.op = "getActiveIncumbentForPosition") =>
            /\ last'.out.ok
            /\ last'.out.data = LatestOf(rows, ActiveIncumbentsOfPosition(rows, last'.input))]_vars


\* ------------------------------------------------------------------ the two entry points compared
\* The create page with worker w selected and its conflict check answered.
CreatePageHolding(w, items) ==
    [AppOpened EXCEPT !.route = "create", !.cpWorkerId = w, !.cpItems = Answered(items)]

\* The modal open with worker w selected and its list of active PRIMARY rows answered.
ModalHolding(w, items) ==
    [AppOpened EXCEPT !.mOpen = TRUE, !.mWorkerId = w, !.mActivePrimaries = Answered(items)]

\* The assignment type the create page sends for a complete request, the user
\* having switched override on and given a reason.
TypeSentByCreatePage(u) ==
    onSubmit(u, CpForm(PR2, P2, Tomorrow, DefaultRotation, TRUE, PaddedReason))
        .payload.assignmentType

\* The assignment type the modal sends for the same request, the user
\* confirming the override dialog with the same reason when it opens.
TypeSentByModal(u) ==
    LET d == submit(u, ModalForm(PR2, P2, Tomorrow, DefaultRotation))
    IN  IF d.kind = "prompt"
        THEN confirmOverride([u EXCEPT !.mOverrideOpen = TRUE, !.mPending = d.payload],
                             PaddedReason).payload.assignmentType
        ELSE d.payload.assignmentType

\* C26 as stated: on every table, for every worker, the create page and the
\* modal, each holding a fresh answer of its conflict check, decide the same
\* conflict state and send the same assignment type for the same request.
EntryPointsAgree ==
    \A w \in Workers :
        \A forPage \in listAssignmentsByWorker(w, FALSE, rows) :
            \A forModal \in listAssignments(ListParams(FALSE, Undef, PRIMARY), rows) :
                /\ hasConflict(CreatePageHolding(w, forPage))
                      = requiresOverride(ModalHolding(w, forModal))
                /\ TypeSentByCreatePage(CreatePageHolding(w, forPage))
                      = TypeSentByModal(ModalHolding(w, forModal))

\* The same comparison on the tables where every active row of the worker is a
\* PRIMARY: there the two entry points agree.
EntryPointsAgreeOnPrimaryOnly ==
    \A w \in Workers :
        (\A i \in RowIds : (rows[i].worker_id = w /\ IsActive(rows[i]))
                                => rows[i].assignment_type = PRIMARY) =>
            \A forPage \in listAssignmentsByWorker(w, FALSE, rows) :
                \A forModal \in listAssignments(ListParams(FALSE, Undef, PRIMARY), rows) :
                    /\ hasConflict(CreatePageHolding(w, forPage))
                          = requiresOverride(ModalHolding(w, forModal))
                    /\ TypeSentByCreatePage(CreatePageHolding(w, forPage))
                          = TypeSentByModal(ModalHolding(w, forModal))


\* C27: a step of endAssignment on id X leaves the number of rows as it was,
\* leaves every row with another id as it was, and changes no field of row X
\* but ended_at and status; when the id is blank or no row has it, the call
\* fails with an AppError (VALIDATION_ERROR or DB_ERROR) and the table is as it was.
EndChangesOnlyEndedAtAndStatus ==
    [][(last' # last /\ last'.op = "endAssignment") =>
          /\ Len(rows') = Len(rows)
          /\ \A i \in RowIds :
                IF rows[i].id = last'.input.assignmentId
                THEN \A f \in DOMAIN rows[i] \ {"ended_at", "status"} :
                        rows'[i][f] = rows[i][f]
                ELSE rows'[i] = rows[i]
          /\ (\A i \in RowIds : rows[i].id # last'.input.assignmentId) =>
                /\ ~last'.out.ok
                /\ last'.out.error.code \in {"VALIDATION_ERROR", "DB_ERROR"}
                /\ rows' = rows]_vars

\* endAssignment ended one row of a table of two; the other row is active.
EndedOneOfTwo ==
    /\ EndReturned
    /\ Len(rows) = 2
    /\ last.prior # Null /\ IsActive(last.prior)
    /\ IsEnded(RowOf(rows, last.input.assignmentId))
    /\ \E i \in RowIds : rows[i].id # last.input.assignmentId /\ IsActive(rows[i])


\* ------------------------------------------------------------------ properties of the modal's writes
\* This step is a write of the session made from the list page's modal.
ModalWrote == ui.route = "list" /\ SessionWrote

\* C30: a closed modal holds no pending payload and no open override dialog;
\* while the answer the modal holds shows an active PRIMARY of the selected
\* worker, no step taken with the override dialog closed writes a row; a write
\* made with the dialog closed is a PRIMARY for a worker without such a
\* conflict; a write made with the dialog open is a SECONDARY built from the
\* pending payload of the dialog, with a trimmed non-blank reason.
ModalWritesOnlyConfirmedOverride ==
    /\ [](~ui.mOpen => (ui.mPending = Null /\ ~ui.mOverrideOpen))
    /\ [][(/\ ui.route = "list" /\ ui.mOpen /\ ~ui.mOverrideOpen
           /\ requiresOverride(ui) /\ ui' # ui) => rows' = rows]_vars
    /\ [][(ModalWrote /\ ~ui.mOverrideOpen) =>
            /\ ~requiresOverride(ui)
            /\ WrittenRow.assignment_type = PRIMARY
            /\ WrittenRow.override_reason = Null]_vars
    /\ [][(ModalWrote /\ ui.mOverrideOpen) =>
            /\ ui.mPending # Null
            /\ WrittenRow.assignment_type = SECONDARY
            /\ WrittenRow.worker_id = ui.mPending.workerId
            /\ WrittenRow.position_id = ui.mPending.positionId
            /\ IsString(WrittenRow.override_reason)
            /\ ~IsBlank(WrittenRow.override_reason)
            /\ Trim(WrittenRow.override_reason.v) = WrittenRow.override_reason.v]_vars

\* After an override was written and the modal closed, the modal was opened
\* again and a new conflicting request waits in the override dialog.
PendingAgainAfterOverride ==
    /\ ui.route = "list"
    /\ ui.mOpen /\ ui.mOverrideOpen
    /\ ui.mPending # Null
    /\ ui.mutation.status = "success"
    /\ ui.mutation.variables.assignmentType = SECONDARY


\* ------------------------------------------------------------------ RequireAuth
MaxEvents == 2

\* The component mounts: the effect calls getSession and subscribes.
RA_Mount ==
    /\ ~auth.mounted
    /\ auth' = [auth EXCEPT !.mounted = TRUE, !.checking = TRUE, !.hasSession = FALSE,
                            !.getSession = "called", !.events = <<>>,
                            !.latest = "nothing", !.newerSeen = FALSE]
    /\ UNCHANGED <<rows, now, auditLog, projects, positions, last, ui>>

\* The cleanup: mounted = false, unsubscribe. The pending getSession of this
\* effect finds mounted false and does nothing.
RA_Unmount ==
    /\ auth.mounted
    /\ auth' = [auth EXCEPT !.mounted = FALSE, !.getSession = "idle", !.events = <<>>]
    /\ UNCHANGED <<rows, now, auditLog, projects, positions, last, ui>>

\* supabase.auth.getSession() takes its answer from the client: the session,
\* none, or an error.
RA_GetSessionReads ==
    /\ auth.getSession = "called"
    /\ \E answer \in {IF auth.session THEN "session" ELSE "none", "error"} :
            auth' = [auth EXCEPT !.getSession = answer]
    /\ UNCHANGED <<rows, now, auditLog, projects, positions, last, ui>>

\* The await returns: setHasSession(Boolean(data.session) && !error);
\* setChecking(false)
RA_GetSessionReturns ==
    /\ auth.mounted
    /\ auth.getSession \in {"session", "none", "error"}
    /\ auth' = [auth EXCEPT
                    !.hasSession = (auth.getSession = "session"),
                    !.checking = FALSE,
                    !.getSession = "done",
                    !.latest = IF auth.newerSeen THEN @
                               ELSE IF auth.getSession = "session" THEN "session"
                               ELSE "none"]
    /\ UNCHANGED <<rows, now, auditLog, projects, positions, last, ui>>

\* The user signs in or out, here or in another tab; a subscriber gets an event.
AuthChanges(signedIn) ==
    /\ auth.session # signedIn
    /\ Len(auth.events) < MaxEvents
    /\ auth' = [auth EXCEPT
                    !.session = signedIn,
                    !.events = IF auth.mounted
                               THEN Append(@, [session |-> signedIn,
                                               afterRead |-> auth.getSession # "called"])
                               ELSE @]
    /\ UNCHANGED <<rows, now, auditLog, projects, positions, last, ui>>

\* onAuthStateChange's callback: setHasSession(Boolean(session)); setChecking(false)
RA_AuthStateChange ==
    /\ auth.mounted
    /\ auth.events # <<>>
    /\ auth' = [auth EXCEPT
                    !.hasSession = Head(auth.events).session,
                    !.checking = FALSE,
                    !.events = Tail(@),
                    !.latest = IF Head(auth.events).session THEN "session" ELSE "none",
                    !.newerSeen = @ \/ Head(auth.events).afterRead]
    /\ UNCHANGED <<rows, now, auditLog, projects, positions, last, ui>>

\* What RequireAuth renders
RA_Renders ==
    IF ~auth.mounted THEN "unmounted"
    ELSE IF auth.checking THEN "nothing"
    ELSE IF ~auth.hasSession THEN "login"
    ELSE "children"

NextAuth ==
    \/ RA_Mount
    \/ RA_Unmount
    \/ RA_GetSessionReads
    \/ RA_GetSessionReturns
    \/ \E signedIn \in BOOLEAN : AuthChanges(signedIn)
    \/ RA_AuthStateChange

AuthSpec == Init /\ [][NextAuth]_vars

\* C29 as stated: RequireAuth renders its children only while the newest
\* session information it has received says that a session exists; a
\* getSession answer delivered after a newer sign-out event does not bring the
\* children back.
ChildrenOnlyWithLatestSession ==
    RA_Renders = "children" => auth.latest = "session"

\* The same, for the information that arrives in the order it was produced:
\* as long as no event emitted after getSession's read has overtaken its
\* answer, the children are shown exactly when the newest information says so.
ChildrenFollowInOrderInformation ==
    (auth.mounted /\ ~auth.checking /\ ~(auth.newerSeen /\ auth.getSession = "done")) =>
        (RA_Renders = "children" <=> auth.latest = "session")

====
